---- MODULE Spec2Model ----
(***************************************************************************)
(* Model of the typing-analysis engine of typesh                           *)
(* (src/src/services/TypingAnalyzer.ts and the helpers in                  *)
(* src/unnamed/part_011, the components/calculations module, and in        *)
(* src/src/services/components), of its session layer                      *)
(* (src/src/services/TypingSessionManager.ts), of the keystroke capture    *)
(* (src/src/services/KeystrokeCaptureService.ts) and of the storage        *)
(* (src/src/services/StorageService.ts).                                   *)
(*                                                                         *)
(* Conventions                                                             *)
(*   - a JavaScript string is a sequence of one-character strings; JS      *)
(*     indices are 0-based, so s[i] in the source is s[i + 1] here;        *)
(*   - the backspace key "\b" is the token Backspace;                      *)
(*   - null is the value Null;                                             *)
(*   - numbers with a fractional part are fixed point: percentages and     *)
(*     scores are integers in hundredths (10000 is 100.00), elapsed time   *)
(*     is in milliseconds (0.01 minute is 600 ms).                         *)
(***************************************************************************)
EXTENDS Integers, Sequences, FiniteSets, TLC

VARIABLES
  targetText,   \* TypingSession.targetText
  userInput,    \* TypingSession.userInput
  keystrokes,   \* TypingSession.keystrokes: [key, timestamp, timeSinceLast]
  startTime,    \* TypingSession.startTime, ms
  endTime,      \* TypingSession.endTime, ms
  config,            \* TypingSessionManager.config: [mode, target, targetText]
  state,             \* TypingSessionManager.state: the SessionState
  sessionTimer,      \* TypingSessionManager.sessionTimer: [due, pending]
  pausedAt,          \* TypingSessionManager.pausedAt, ms
  lastKeystrokeTime, \* TypingSessionManager.lastKeystrokeTime, ms
  now,               \* the clock, Date.now(), ms
  sessionEnds,       \* the sessions handed to the onSessionComplete callback
  keystrokeEvents,   \* the keystrokes handed to the onKeystrokeEvent callback
  captureState,  \* KeystrokeCaptureService.state: the CaptureState
  handlers,      \* KeystrokeCaptureService.handlers
  listeners,     \* the listeners the target element holds, per event type
  isConnected,   \* targetElement.isConnected
  dispatched,    \* the handler invocations: [handler, key, isActive]
  globalState,   \* context.globalState: [typingSessions, customParagraphs]
  saved,         \* the sessions of the saveSession calls that returned
  locals,        \* findAlignedErrors: [errors, targetIndex, inputIndex, iterations]
  unpausedMs,    \* the time the session has been active and not paused, ms
  args,         \* the arguments of the call, when they are not in the state
  call,         \* the function that has been applied, or "none"
  ret           \* what it returned

sessionVars == <<targetText, userInput, keystrokes, startTime, endTime>>

managerVars == <<config, state, sessionTimer, pausedAt, lastKeystrokeTime, now,
                 sessionEnds, keystrokeEvents>>

captureVars == <<captureState, handlers, listeners, isConnected, dispatched>>

storageVars == <<globalState, saved>>

serviceVars == <<captureVars, storageVars>>

vars == <<call, sessionVars, managerVars, serviceVars, locals, unpausedMs, args, ret>>

----------------------------------------------------------------------------
(* Bounds of the model *)

MaxLen == 3       \* longest enumerated target and input string
MaxKeys == 4      \* longest enumerated keystroke log of a session
MaxStrokes == 6   \* longest enumerated keystroke log of the timing family
MaxCount == 12    \* largest enumerated character or word count
MaxSessionKeys == 2  \* most keystrokes a managed session records
MaxTicks == 2     \* most steps of the clock in a managed session
MaxErrors == 2    \* most failed starts of a capture service
MaxDispatched == 3  \* most handler invocations of a capture service
MaxSessions == 102  \* most sessions saved to the storage service
MaxParagraphs == 2  \* most paragraphs the storage service holds

----------------------------------------------------------------------------
(* Values *)

Null == "null"
Backspace == "BS"

TargetAlphabet == {"a", "b"}
InputAlphabet == {"a", "b", "A"}

Min(a, b) == IF a <= b THEN a ELSE b
Max(a, b) == IF a >= b THEN a ELSE b

StrOver(alphabet, n) == UNION {[1..k -> alphabet] : k \in 0..n}

\* String.prototype.indexOf(ch, from), 0-based, -1 when absent
IndexOf(s, ch, from) ==
  LET hits == {i \in from..(Len(s) - 1) : s[i + 1] = ch}
  IN IF hits = {} THEN -1 ELSE CHOOSE i \in hits : \A j \in hits : i <= j

----------------------------------------------------------------------------
(* levenshteinDistance *)

\* folds case before comparing
FoldCase(ch) == IF ch = "A" THEN "a" ELSE ch

substitutionCostIgnoringCase(a, b) == IF FoldCase(a) = FoldCase(b) THEN 0 ELSE 1

\* charges a substitution even for equal characters
substitutionCostAlways(a, b) == 1

substitutionCost(a, b) == IF a = b THEN 0 ELSE 1

matrixRow0(j) == j

\* leaves the first column at the fill value
matrixCol0Unset(i) == 0

matrixCol0(i) == i

\* Math.min(deletion, insertion, substitution) of one cell
matrixCell(above, left, diagonal, cost) ==
  Min(Min(above + 1, left + 1), diagonal + cost)

\* the inner loop: row i of the matrix, given row i - 1; row holds the cells
\* 0..Len(row) - 1 filled so far (cell j is row[j + 1])
RECURSIVE FillRow(_, _, _, _)
FillRow(previous, targetChar, input, row) ==
  IF Len(row) > Len(input) THEN row
  ELSE LET j == Len(row)
       IN FillRow(previous, targetChar, input,
                  Append(row, matrixCell(previous[j + 1], row[j], previous[j],
                                         substitutionCost(targetChar, input[j]))))

\* the outer loop: the last row of the matrix
RECURSIVE FillMatrix(_, _, _, _)
FillMatrix(target, input, i, previous) ==
  IF i > Len(target) THEN previous
  ELSE FillMatrix(target, input, i + 1,
                  FillRow(previous, target[i], input, <<matrixCol0(i)>>))

levenshteinDistance(target, input) ==
  LET inputLen == Len(input)
      firstRow == [j \in 1..(inputLen + 1) |-> matrixRow0(j - 1)]
  IN FillMatrix(target, input, 1, firstRow)[inputLen + 1]

----------------------------------------------------------------------------
(* findAlignedErrors *)

\* an error that records the cursor after it has moved on
ErrorFoundAtNextPosition(expectedChar, actualChar, position, type) ==
  [expectedChar |-> expectedChar, actualChar |-> actualChar,
   position |-> position + 1, type |-> type]

\* an error recorded as a substitution whatever was found
ErrorFoundAsSubstitution(expectedChar, actualChar, position, type) ==
  [expectedChar |-> expectedChar, actualChar |-> actualChar,
   position |-> position, type |-> "substitution"]

ErrorFound(expectedChar, actualChar, position, type) ==
  [expectedChar |-> expectedChar, actualChar |-> actualChar,
   position |-> position, type |-> type]

\* the while condition with both cursors required to be inside
loopContinuesWhileBoth(target, input, targetIndex, inputIndex) ==
  targetIndex < Len(target) /\ inputIndex < Len(input)

\* the while condition
loopContinues(target, input, targetIndex, inputIndex) ==
  targetIndex < Len(target) \/ inputIndex < Len(input)

\* a comparison that takes the insertion on equal distances too
insertionIsCloserOrTied(nextTargetInInput, nextInputInTarget, targetIndex, inputIndex) ==
  nextTargetInInput # -1 /\
    (nextInputInTarget = -1 \/
     nextTargetInInput - inputIndex <= nextInputInTarget - targetIndex)

\* the condition of the insertion branch at a mismatch
insertionIsCloser(nextTargetInInput, nextInputInTarget, targetIndex, inputIndex) ==
  nextTargetInInput # -1 /\
    (nextInputInTarget = -1 \/
     nextTargetInInput - inputIndex < nextInputInTarget - targetIndex)

\* one iteration of the while loop: the errors pushed and the new cursors
AlignStep(target, input, targetIndex, inputIndex) ==
  IF targetIndex >= Len(target)
  THEN [errors |-> <<ErrorFound(Null, input[inputIndex + 1], targetIndex, "insertion")>>,
        targetIndex |-> targetIndex, inputIndex |-> inputIndex + 1]
  ELSE IF inputIndex >= Len(input)
  THEN [errors |-> <<ErrorFound(target[targetIndex + 1], Null, targetIndex, "deletion")>>,
        targetIndex |-> targetIndex + 1, inputIndex |-> inputIndex]
  ELSE IF target[targetIndex + 1] = input[inputIndex + 1]
  THEN [errors |-> <<>>,
        targetIndex |-> targetIndex + 1, inputIndex |-> inputIndex + 1]
  ELSE
    LET nextTargetInInput == IndexOf(input, target[targetIndex + 1], inputIndex + 1)
        nextInputInTarget == IndexOf(target, input[inputIndex + 1], targetIndex + 1)
    IN IF insertionIsCloser(nextTargetInInput, nextInputInTarget,
                            targetIndex, inputIndex)
       THEN [errors |-> <<ErrorFound(Null, input[inputIndex + 1], targetIndex, "insertion")>>,
             targetIndex |-> targetIndex, inputIndex |-> inputIndex + 1]
       ELSE IF nextInputInTarget # -1
       THEN [errors |-> <<ErrorFound(target[targetIndex + 1], Null, targetIndex, "deletion")>>,
             targetIndex |-> targetIndex + 1, inputIndex |-> inputIndex]
       ELSE [errors |-> <<ErrorFound(target[targetIndex + 1], input[inputIndex + 1],
                                      targetIndex, "substitution")>>,
             targetIndex |-> targetIndex + 1, inputIndex |-> inputIndex + 1]

RECURSIVE AlignFrom(_, _, _, _)
AlignFrom(target, input, targetIndex, inputIndex) ==
  IF loopContinues(target, input, targetIndex, inputIndex)
  THEN LET step == AlignStep(target, input, targetIndex, inputIndex)
       IN step.errors \o AlignFrom(target, input, step.targetIndex, step.inputIndex)
  ELSE <<>>

findAlignedErrors(target, input) == AlignFrom(target, input, 0, 0)

----------------------------------------------------------------------------
(* analyzeErrorPatterns *)

MISSING == "_MISSING_"
DELETED == "_DELETED_"
TopPatterns == 10

Range(s) == {s[i] : i \in 1..Len(s)}

\* error.expectedChar || "_MISSING_"
ErrorKey(error) ==
  IF error.expectedChar = Null \/ error.expectedChar = "" THEN MISSING
  ELSE error.expectedChar

\* the actual character, absent or not
ErrorMistakeUnmarked(error) == error.actualChar

\* error.actualChar || "_DELETED_"
ErrorMistake(error) ==
  IF error.actualChar = Null \/ error.actualChar = "" THEN DELETED
  ELSE error.actualChar

\* an entry that takes the kind of every error recorded under it
RecordErrorKeepingLastType(errorMap, error) ==
  LET key == ErrorKey(error)
      has == \E i \in 1..Len(errorMap) : errorMap[i].key = key
      map == IF has THEN errorMap
             ELSE Append(errorMap, [key |-> key, frequency |-> 0, positions |-> <<>>,
                                    mistakes |-> <<>>, errorType |-> error.type])
      k == CHOOSE i \in 1..Len(map) : map[i].key = key
  IN [map EXCEPT ![k].frequency = @ + 1,
                 ![k].positions = Append(@, error.position),
                 ![k].mistakes = IF ErrorMistake(error) \in Range(@) THEN @
                                 ELSE Append(@, ErrorMistake(error)),
                 ![k].errorType = error.type]

\* the body of the forEach: errorMap is a Map, kept in insertion order
RecordError(errorMap, error) ==
  LET key == ErrorKey(error)
      has == \E i \in 1..Len(errorMap) : errorMap[i].key = key
      map == IF has THEN errorMap
             ELSE Append(errorMap, [key |-> key, frequency |-> 0, positions |-> <<>>,
                                    mistakes |-> <<>>, errorType |-> error.type])
      k == CHOOSE i \in 1..Len(map) : map[i].key = key
  IN [map EXCEPT ![k].frequency = @ + 1,
                 ![k].positions = Append(@, error.position),
                 ![k].mistakes = IF ErrorMistake(error) \in Range(@) THEN @
                                 ELSE Append(@, ErrorMistake(error))]

RECURSIVE BuildErrorMap(_, _)
BuildErrorMap(errors, errorMap) ==
  IF errors = <<>> THEN errorMap
  ELSE BuildErrorMap(Tail(errors), RecordError(errorMap, Head(errors)))

ToPattern(entry) ==
  [character |-> IF entry.key = MISSING THEN "" ELSE entry.key,
   frequency |-> entry.frequency,
   positions |-> entry.positions,
   commonMistakes |-> entry.mistakes,
   errorType |-> entry.errorType]

\* Array.prototype.sort((a, b) => b.frequency - a.frequency): stable
RECURSIVE SortByFrequency(_)
SortByFrequency(patterns) ==
  IF patterns = <<>> THEN <<>>
  ELSE LET n == Len(patterns)
           last == patterns[n]
           sorted == SortByFrequency(SubSeq(patterns, 1, n - 1))
           ahead == Cardinality({i \in 1..Len(sorted) : sorted[i].frequency >= last.frequency})
       IN SubSeq(sorted, 1, ahead) \o <<last>> \o SubSeq(sorted, ahead + 1, Len(sorted))

\* keeps one entry too many
SliceTopOneMore(patterns, count) == SubSeq(patterns, 1, Min(Len(patterns), count + 1))

\* slice(1, count): the first entry is left out
SliceAfterFirst(patterns, count) == SubSeq(patterns, 2, Min(Len(patterns), count))

\* Array.prototype.slice(0, count)
SliceTop(patterns, count) == SubSeq(patterns, 1, Min(Len(patterns), count))

analyzeErrorPatterns(target, inputText, strokes) ==
  IF target = <<>> \/ inputText = <<>> THEN <<>>
  ELSE LET alignedErrors == findAlignedErrors(target, inputText)
           errorMap == BuildErrorMap(alignedErrors, <<>>)
           patterns == [i \in 1..Len(errorMap) |-> ToPattern(errorMap[i])]
       IN SliceTop(SortByFrequency(patterns), TopPatterns)

----------------------------------------------------------------------------
(* analyzeKeypressAccuracy, calculateCorrectChars, the WPM functions *)

Keystroke(key, timestamp, timeSinceLast) ==
  [key |-> key, timestamp |-> timestamp, timeSinceLast |-> timeSinceLast]

\* Math.round(p / q) for q > 0: the nearest integer, halves upward
RoundDiv(p, q) == (2 * p + q) \div (2 * q)

\* compares with the character after the cursor
IsCorrectKeyAhead(key, target, position) ==
  position + 1 < Len(target) /\ key = target[position + 2]

\* is the key pressed at position the one the target has there
IsCorrectKey(key, target, position) ==
  position < Len(target) /\ key = target[position + 1]

\* a backspace that leaves the cursor where it is
BackspaceCursorStuck(position) == position

\* the cursor after a backspace
BackspaceCursor(position) == IF position > 0 THEN position - 1 ELSE position

\* one iteration of the for loop over the keystrokes
KeypressStep(acc, keystroke, target) ==
  IF keystroke.key = Backspace
  THEN [acc EXCEPT !.position = BackspaceCursor(@)]
  ELSE [position |-> acc.position + 1,
        totalKeypresses |-> acc.totalKeypresses + 1,
        correctKeypresses |-> acc.correctKeypresses +
           (IF IsCorrectKey(keystroke.key, target, acc.position) THEN 1 ELSE 0)]

RECURSIVE KeypressLoop(_, _, _)
KeypressLoop(acc, strokes, target) ==
  IF strokes = <<>> THEN acc
  ELSE KeypressLoop(KeypressStep(acc, Head(strokes), target), Tail(strokes), target)

\* accuracy is the fraction num / den, in percent
analyzeKeypressAccuracy(strokes, target) ==
  LET acc == KeypressLoop([position |-> 0, totalKeypresses |-> 0, correctKeypresses |-> 0],
                          strokes, target)
  IN [totalKeypresses |-> acc.totalKeypresses,
      correctKeypresses |-> acc.correctKeypresses,
      accuracy |-> IF acc.totalKeypresses > 0
                   THEN [num |-> acc.correctKeypresses * 100, den |-> acc.totalKeypresses]
                   ELSE [num |-> 100, den |-> 1]]

calculateCorrectChars(target, input) ==
  LET editDistance == levenshteinDistance(target, input)
      minLength == Min(Len(target), Len(input))
  IN Max(0, minLength - editDistance)

MsPerMinute == 60000
CharsPerWord == 5
MinTimeMs == 600     \* 0.01 minute

\* timeMs is timeInMinutes * 60000
calculateWPM(correctedChars, timeMs) ==
  IF timeMs <= 0 THEN 0
  ELSE RoundDiv(correctedChars * MsPerMinute, CharsPerWord * timeMs)

\* the gross speed rounded down
calculateGrossWPMFloored(totalChars, timeMs) ==
  IF timeMs <= 0 THEN 0
  ELSE (totalChars * MsPerMinute) \div (CharsPerWord * timeMs)

calculateGrossWPM(totalChars, timeMs) ==
  IF timeMs <= 0 THEN 0
  ELSE RoundDiv(totalChars * MsPerMinute, CharsPerWord * timeMs)

\* A JavaScript number that may not be finite: a division by zero gives
\* Infinity, and 0 / 0 gives NaN; Math.round returns both unchanged.
Finite(n) == [finite |-> TRUE, value |-> n]
NaN == [finite |-> FALSE, value |-> "NaN"]
Infinity == [finite |-> FALSE, value |-> "Infinity"]

\* Math.round(p / q) for p >= 0 and q >= 0
RoundQuotient(p, q) ==
  IF q = 0 THEN (IF p = 0 THEN NaN ELSE Infinity)
  ELSE Finite(RoundDiv(p, q))

\* components/wpmCalculator: the count is in words, the guard is strict
componentsCalculateWPM(correctWords, timeMs) ==
  IF timeMs < 0 THEN Finite(0)
  ELSE RoundQuotient(correctWords * MsPerMinute, timeMs)

componentsCalculateGrossWPM(totalTypedChars, timeMs) ==
  IF timeMs <= 0 THEN Finite(0)
  ELSE RoundQuotient(totalTypedChars * MsPerMinute, CharsPerWord * timeMs)

\* components/calculations, calculateCharacterStats: the final strings
\* compared position by position
CharacterStepAllCorrect(stats, targetChar, inputChar) ==
  [stats EXCEPT !.correct = @ + 1]

\* one iteration of the for loop over the first minLength positions
CharacterStep(stats, targetChar, inputChar) ==
  IF targetChar = inputChar
  THEN [stats EXCEPT !.correct = @ + 1]
  ELSE [stats EXCEPT !.incorrect = @ + 1]

RECURSIVE CharacterLoop(_, _, _, _, _)
CharacterLoop(stats, target, input, i, minLength) ==
  IF i >= minLength THEN stats
  ELSE CharacterLoop(CharacterStep(stats, target[i + 1], input[i + 1]),
                     target, input, i + 1, minLength)

\* the surplus counted whichever string is the longer
extraCharactersEitherWay(target, input) ==
  Max(Len(input) - Len(target), Len(target) - Len(input))

extraCharacters(target, input) == Max(0, Len(input) - Len(target))

missedCharacters(target, input) == Max(0, Len(target) - Len(input))

calculateCharacterStats(target, input) ==
  LET minLength == Min(Len(target), Len(input))
      counted == CharacterLoop([correct |-> 0, incorrect |-> 0], target, input, 0, minLength)
  IN [correct |-> counted.correct,
      incorrect |-> counted.incorrect,
      extra |-> extraCharacters(target, input),
      missed |-> missedCharacters(target, input)]

\* components/calculations: the keystrokes that are not a backspace
RECURSIVE countAllTypedCharacters(_)
countAllTypedCharacters(strokes) ==
  IF strokes = <<>> THEN 0
  ELSE (IF Head(strokes).key # Backspace THEN 1 ELSE 0) + countAllTypedCharacters(Tail(strokes))

----------------------------------------------------------------------------
(* calculateConsistencyScore and its parts.  Scores and penalties are     *)
(* fixed point with FixedOne units per 1, the returned score is in         *)
(* hundredths; the square root and the exponential are computed to the     *)
(* precision of the fixed point.                                           *)

FixedOne == 100 * 100
MinKeystrokes == 5
RhythmLimit == 400
HesitationLimit == 2000
FewRhythmScore == 85
MaxHesitationPenalty == 40
MaxPausePenalty == 20

RECURSIVE SumSeq(_)
SumSeq(s) == IF s = <<>> THEN 0 ELSE Head(s) + SumSeq(Tail(s))

RECURSIVE SumSquares(_)
SumSquares(s) == IF s = <<>> THEN 0 ELSE Head(s) * Head(s) + SumSquares(Tail(s))

\* [...a].sort((a, b) => a - b)
RECURSIVE SortAscending(_)
SortAscending(s) ==
  IF s = <<>> THEN <<>>
  ELSE LET n == Len(s)
           sorted == SortAscending(SubSeq(s, 1, n - 1))
           ahead == Cardinality({i \in 1..Len(sorted) : sorted[i] <= s[n]})
       IN SubSeq(sorted, 1, ahead) \o <<s[n]>> \o SubSeq(sorted, ahead + 1, Len(sorted))

\* floor of Math.sqrt(n)
RECURSIVE ISqrtBetween(_, _, _)
ISqrtBetween(n, lo, hi) ==
  IF lo >= hi THEN lo
  ELSE LET mid == (lo + hi + 1) \div 2
       IN IF mid * mid <= n THEN ISqrtBetween(n, mid, hi) ELSE ISqrtBetween(n, lo, mid - 1)

ISqrt(n) == ISqrtBetween(n, 0, Min(n, 46340))

\* 1000 * Math.exp(x / 1000) for x >= 0, by its power series
RECURSIVE ExpSeries(_, _, _)
ExpSeries(x, k, term) ==
  IF term = 0 THEN 0 ELSE term + ExpSeries(x, k + 1, (term * x) \div ((k + 1) * 1000))

ExpMilli(x) == ExpSeries(x, 0, 1000)

\* a fence with the signs of its two bounds exchanged:
\* [q1 + 1.5 iqr, q3 - 1.5 iqr]
TukeyFilterInverted(rhythmIntervals) ==
  LET sortedIntervals == SortAscending(rhythmIntervals)
      q1Index == Len(sortedIntervals) \div 4
      q3Index == (3 * Len(sortedIntervals)) \div 4
      q1 == sortedIntervals[q1Index + 1]
      q3 == sortedIntervals[q3Index + 1]
      iqr == q3 - q1
      InFence(interval) == 2 * interval >= 2 * q1 + 3 * iqr /\ 2 * interval <= 2 * q3 - 3 * iqr
  IN IF Len(rhythmIntervals) >= 5 /\ iqr > 0
     THEN SelectSeq(rhythmIntervals, InFence)
     ELSE rhythmIntervals

\* the intervals kept by the Tukey fence [q1 - 1.5 iqr, q3 + 1.5 iqr]
TukeyFilter(rhythmIntervals) ==
  LET sortedIntervals == SortAscending(rhythmIntervals)
      q1Index == Len(sortedIntervals) \div 4
      q3Index == (3 * Len(sortedIntervals)) \div 4
      q1 == sortedIntervals[q1Index + 1]
      q3 == sortedIntervals[q3Index + 1]
      iqr == q3 - q1
      InFence(interval) == 2 * interval >= 2 * q1 - 3 * iqr /\ 2 * interval <= 2 * q3 + 3 * iqr
  IN IF Len(rhythmIntervals) >= 5 /\ iqr > 0
     THEN SelectSeq(rhythmIntervals, InFence)
     ELSE rhythmIntervals

\* 1000 * standardDeviation / mean of the intervals, 0 when the mean is not positive
CoefficientOfVariationMilli(intervals) ==
  LET n == Len(intervals)
      sum == SumSeq(intervals)
      spread == n * SumSquares(intervals) - sum * sum
  IN IF sum > 0 THEN (ISqrt(spread * 100) * 100) \div sum ELSE 0

calculatePureRhythmConsistency(rhythmIntervals) ==
  IF Len(rhythmIntervals) < 3 THEN FewRhythmScore * FixedOne
  ELSE LET fenced == TukeyFilter(rhythmIntervals)
           filteredIntervals == IF 2 * Len(fenced) < Len(rhythmIntervals)
                                THEN rhythmIntervals ELSE fenced
           cv == CoefficientOfVariationMilli(filteredIntervals)
       IN Max(0, (100 * FixedOne * 1000) \div ExpMilli(2 * cv))

calculateHesitationPenalty(hesitationCount, totalIntervals) ==
  IF totalIntervals = 0 THEN 0
  ELSE LET basePenalty == (hesitationCount * 30 * FixedOne) \div totalIntervals
           progressivePenalty ==
             (ISqrt(hesitationCount * totalIntervals * 10000) * 15 * (FixedOne \div 100))
               \div totalIntervals
       IN Min(MaxHesitationPenalty * FixedOne, basePenalty + progressivePenalty)

calculatePausePenalty(pauseCount, totalIntervals) ==
  IF totalIntervals = 0 THEN 0
  ELSE Min(MaxPausePenalty * FixedOne, (pauseCount * 15 * FixedOne) \div totalIntervals)

\* without the floor at 0
overallConsistencyUnfloored(rhythmScore, hesitationPenalty, pausePenalty) ==
  rhythmScore - hesitationPenalty - pausePenalty

\* rhythmScore - hesitationPenalty - pausePenalty, floored at 0
overallConsistency(rhythmScore, hesitationPenalty, pausePenalty) ==
  Max(0, rhythmScore - hesitationPenalty - pausePenalty)

\* buckets in which an interval of RhythmLimit is a hesitation too
bucketIntervalsOverlapping(strokes) ==
  LET IsPositive(interval) == interval > 0
      IsRhythm(interval) == interval <= RhythmLimit
      IsHesitation(interval) == interval >= RhythmLimit /\ interval <= HesitationLimit
      IsLongPause(interval) == interval > HesitationLimit
      sinceLast == [i \in 1..(Len(strokes) - 1) |-> strokes[i + 1].timeSinceLast]
      intervals == SelectSeq(sinceLast, IsPositive)
  IN [intervals |-> intervals,
      rhythmIntervals |-> SelectSeq(intervals, IsRhythm),
      hesitationIntervals |-> SelectSeq(intervals, IsHesitation),
      longPauseIntervals |-> SelectSeq(intervals, IsLongPause)]

\* the positive intervals after the first keystroke, and their buckets
bucketIntervals(strokes) ==
  LET IsPositive(interval) == interval > 0
      IsRhythm(interval) == interval <= RhythmLimit
      IsHesitation(interval) == interval > RhythmLimit /\ interval <= HesitationLimit
      IsLongPause(interval) == interval > HesitationLimit
      sinceLast == [i \in 1..(Len(strokes) - 1) |-> strokes[i + 1].timeSinceLast]
      intervals == SelectSeq(sinceLast, IsPositive)
  IN [intervals |-> intervals,
      rhythmIntervals |-> SelectSeq(intervals, IsRhythm),
      hesitationIntervals |-> SelectSeq(intervals, IsHesitation),
      longPauseIntervals |-> SelectSeq(intervals, IsLongPause)]

\* the early return taken only below 2 keystrokes
calculateConsistencyScoreFromTwo(strokes) ==
  IF Len(strokes) < 2 THEN 100 * 100
  ELSE
    LET IsPositive(interval) == interval > 0
        IsRhythm(interval) == interval <= RhythmLimit
        IsHesitation(interval) == interval > RhythmLimit /\ interval <= HesitationLimit
        IsLongPause(interval) == interval > HesitationLimit
        sinceLast == [i \in 1..(Len(strokes) - 1) |-> strokes[i + 1].timeSinceLast]
        intervals == SelectSeq(sinceLast, IsPositive)
        totalIntervals == Len(intervals)
    IN IF Len(intervals) = 0 THEN 100 * 100
       ELSE RoundDiv(overallConsistency(
                       calculatePureRhythmConsistency(SelectSeq(intervals, IsRhythm)),
                       calculateHesitationPenalty(Len(SelectSeq(intervals, IsHesitation)), totalIntervals),
                       calculatePausePenalty(Len(SelectSeq(intervals, IsLongPause)), totalIntervals)),
                     FixedOne \div 100)

calculateConsistencyScore(strokes) ==
  IF Len(strokes) < MinKeystrokes THEN 100 * 100
  ELSE
    LET intervals == bucketIntervals(strokes).intervals
        rhythmIntervals == bucketIntervals(strokes).rhythmIntervals
        hesitationIntervals == bucketIntervals(strokes).hesitationIntervals
        longPauseIntervals == bucketIntervals(strokes).longPauseIntervals
        rhythmScore == calculatePureRhythmConsistency(rhythmIntervals)
        totalIntervals == Len(intervals)
        hesitationPenalty == calculateHesitationPenalty(Len(hesitationIntervals), totalIntervals)
        pausePenalty == calculatePausePenalty(Len(longPauseIntervals), totalIntervals)
    IN IF Len(intervals) = 0 THEN 100 * 100
       ELSE RoundDiv(overallConsistency(rhythmScore, hesitationPenalty, pausePenalty),
                     FixedOne \div 100)

----------------------------------------------------------------------------
(* analyzeSession *)

\* the length analyzeSession hands to calculateGrossWPM
totalChars(input, strokes) == Len(input)

\* the elapsed time as it is
timeInMinutesUnclamped(start, end) == end - start

\* the elapsed time, at least 0.01 minute; in ms
timeInMinutes(start, end) == Max(MinTimeMs, end - start)

analyzeSession(target, input, strokes, start, end) ==
  LET keypressAnalysis == analyzeKeypressAccuracy(strokes, target)
      correctChars == calculateCorrectChars(target, input)
      errorCount == levenshteinDistance(target, input)
      accuracy == keypressAnalysis.accuracy
      timeMs == timeInMinutes(start, end)
  IN [wpm |-> calculateWPM(correctChars, timeMs),
      grossWPM |-> calculateGrossWPM(totalChars(input, strokes), timeMs),
      accuracy |-> RoundDiv(accuracy.num * 100, accuracy.den),
      errorCount |-> errorCount,
      correctChars |-> correctChars,
      totalChars |-> totalChars(input, strokes),
      consistencyScore |-> calculateConsistencyScore(strokes),
      errorPatterns |-> analyzeErrorPatterns(target, input, strokes)]

----------------------------------------------------------------------------
(* The session layer's replay of a keystroke log                           *)
(* (TypingSessionManager.processKeystroke): a key is appended, a           *)
(* backspace removes the last character and is a no-op on empty input.     *)

RECURSIVE Replay(_, _)
Replay(strokes, currentInput) ==
  IF strokes = <<>> THEN currentInput
  ELSE LET key == Head(strokes).key
       IN Replay(Tail(strokes),
                 IF key = Backspace
                 THEN (IF Len(currentInput) > 0
                       THEN SubSeq(currentInput, 1, Len(currentInput) - 1)
                       ELSE currentInput)
                 ELSE Append(currentInput, key))

----------------------------------------------------------------------------
(* Inputs *)

LongTarget == <<"a", "b", "c", "d", "e", "f", "g", "h", "i", "j", "k", "b">>

LongPairs == {<<LongTarget, <<"z">> >>, << <<"z">>, LongTarget>>}

\* the pair of the analyzer's error-pattern test: e typed as x, twice
HelloWorldTest ==
  <<"h", "e", "l", "l", "o", " ", "w", "o", "r", "l", "d", " ", "t", "e", "s", "t">>

HxlloWorldTxst ==
  <<"h", "x", "l", "l", "o", " ", "w", "o", "r", "l", "d", " ", "t", "x", "s", "t">>

StringPairs ==
  (StrOver(TargetAlphabet, MaxLen) \X StrOver(InputAlphabet, MaxLen)) \cup LongPairs

Gaps == {-100, 0, 10, 400, 1000, 2000, 1000000}

\* a log of the key "a" with the given timeSinceLast values
TimedLog(gaps) ==
  [i \in 1..Len(gaps) |-> Keystroke("a", SumSeq(SubSeq(gaps, 1, i)), gaps[i])]

TimingLogs == {TimedLog(gaps) : gaps \in StrOver(Gaps, MaxStrokes)}

Keys == TargetAlphabet \cup {Backspace}

\* a log of the given keys, 100 ms apart
KeyLog(keys, start) ==
  [i \in 1..Len(keys) |-> Keystroke(keys[i], start + 100 * (i - 1), IF i = 1 THEN 0 ELSE 100)]

KeyLogs == {KeyLog(keys, 0) : keys \in StrOver(Keys, MaxKeys)}

\* a heavy-correction session after the one of the analyzer's tests: two
\* wrong keys, each erased and retyped
Hello == <<"h", "e", "l", "l", "o">>

HeavyCorrectionLog ==
  KeyLog(<<"h", "x", Backspace, "e", "y", Backspace, "l", "l", "o">>, 1000)

ElapsedMs == {-1000, 0, 1000, 60000}

\* arguments of the WPM functions: a count and a time in ms
Counts == 0..MaxCount

TimesMs == {-60000, -600, -1, 0, 1, 600, 60000}

----------------------------------------------------------------------------
(* TypingSessionManager.  Its mutable fields are gathered in a record so    *)
(* that one method can call another: Manager is the object as the state of  *)
(* the model has it, and an action stores the record a method returns.      *)

\* A time that is null is the time 0, which the clock never shows: the
\* code tests times for null by their truth value.  A timer that is null
\* is a timer that is not pending.
NoTime == 0

NoTimer == [due |-> NoTime, pending |-> FALSE]

NoManager ==
  /\ config = Null
  /\ state = Null
  /\ sessionTimer = NoTimer
  /\ pausedAt = NoTime
  /\ lastKeystrokeTime = 0
  /\ now = 0
  /\ sessionEnds = <<>>
  /\ keystrokeEvents = <<>>

\* no capture service has been constructed
NoCapture ==
  /\ captureState = Null
  /\ handlers = <<>>
  /\ listeners = Null
  /\ isConnected = FALSE
  /\ dispatched = <<>>

\* no storage service has been constructed
NoStorage ==
  /\ globalState = Null
  /\ saved = <<>>

NoServices == NoCapture /\ NoStorage

Manager ==
  [state |-> state, sessionTimer |-> sessionTimer, pausedAt |-> pausedAt,
   lastKeystrokeTime |-> lastKeystrokeTime, sessionEnds |-> sessionEnds,
   keystrokeEvents |-> keystrokeEvents]

initializeState ==
  [isActive |-> FALSE, isPaused |-> FALSE, isCompleted |-> FALSE,
   startTime |-> NoTime, endTime |-> NoTime,
   currentInput |-> <<>>, currentPosition |-> 0, keystrokes |-> <<>>]

MsPerSecond == 1000

clearTimer(m) == [m EXCEPT !.sessionTimer = NoTimer]

\* setTimeout(() => this.endSession(), seconds * 1000), seconds given in ms
setTimer(m, clock, delayMs) ==
  [m EXCEPT !.sessionTimer = [due |-> clock + delayMs, pending |-> TRUE]]

\* a guard that lets an active session end again
endSessionReturnsEarlyIfInactive(sessionState) == ~sessionState.isActive

\* the guard of endSession
endSessionReturnsEarly(sessionState) ==
  ~sessionState.isActive \/ sessionState.isCompleted

endSession(m, cfg, clock) ==
  IF endSessionReturnsEarly(m.state) THEN m
  ELSE LET ended == [m.state EXCEPT !.isCompleted = TRUE,
                                    !.isActive = FALSE,
                                    !.endTime = clock]
           session == [keystrokes |-> ended.keystrokes,
                       targetText |-> cfg.targetText,
                       userInput |-> ended.currentInput,
                       startTime |-> ended.startTime,
                       endTime |-> ended.endTime,
                       timerDuration |-> cfg.target,
                       isCompleted |-> TRUE]
       IN [clearTimer(m) EXCEPT !.state = ended,
                                !.sessionEnds = Append(@, session)]

startTimer(m, cfg, clock) == setTimer(clearTimer(m), clock, cfg.target * MsPerSecond)

startSession(m, cfg, clock) ==
  IF m.state.isActive THEN m
  ELSE LET started == [m EXCEPT !.state.isActive = TRUE,
                                !.state.startTime = clock,
                                !.lastKeystrokeTime = clock]
       IN IF cfg.mode = "time" THEN startTimer(started, cfg, clock) ELSE started

pauseSession(m, clock) ==
  IF ~m.state.isActive \/ m.state.isPaused THEN m
  ELSE clearTimer([m EXCEPT !.state.isPaused = TRUE, !.pausedAt = clock])

resumeTimerWithRemaining(m, cfg, clock) ==
  IF m.state.startTime = NoTime \/ m.pausedAt = NoTime THEN m
  ELSE LET timeUsedBeforePause == m.pausedAt - m.state.startTime
           remainingTime == Max(0, cfg.target * MsPerSecond - timeUsedBeforePause)
       IN IF remainingTime > 0 THEN setTimer(m, clock, remainingTime)
          ELSE endSession(m, cfg, clock)

resumeSession(m, cfg, clock) ==
  IF ~m.state.isActive \/ ~m.state.isPaused THEN m
  ELSE LET resumed == [m EXCEPT !.state.isPaused = FALSE,
                                !.lastKeystrokeTime = clock]
           timed == IF cfg.mode = "time"
                    THEN resumeTimerWithRemaining(resumed, cfg, clock)
                    ELSE resumed
       IN [timed EXCEPT !.pausedAt = NoTime]

\* String.prototype.trim, the space being the only whitespace typed
RECURSIVE trimStart(_)
trimStart(s) == IF s # <<>> /\ Head(s) = " " THEN trimStart(Tail(s)) ELSE s

RECURSIVE trimEnd(_)
trimEnd(s) ==
  IF s # <<>> /\ s[Len(s)] = " " THEN trimEnd(SubSeq(s, 1, Len(s) - 1)) ELSE s

trim(s) == trimEnd(trimStart(s))

\* currentInput.trim().split(/\s+/).length: the empty string splits into
\* one empty piece
wordCount(currentInput) ==
  LET trimmed == trim(currentInput)
  IN 1 + Cardinality({i \in 1..(Len(trimmed) - 1) :
                        trimmed[i] = " " /\ trimmed[i + 1] # " "})

checkCompletionConditions(m, cfg, clock) ==
  IF cfg.mode = "words"
  THEN (IF wordCount(m.state.currentInput) >= cfg.target
        THEN endSession(m, cfg, clock) ELSE m)
  ELSE IF cfg.mode \in {"quote", "time"}
  THEN (IF Len(m.state.currentInput) >= Len(cfg.targetText)
        THEN endSession(m, cfg, clock) ELSE m)
  ELSE m

\* resetSession is called by processKeystroke but its body is not in the
\* sources; it returns the session to its initial state
resetSession(m) ==
  [clearTimer(m) EXCEPT !.state = initializeState, !.pausedAt = NoTime]

BackspaceName == "Backspace"

\* a guard that lets a paused session take keys
rejectsKeystrokeUnlessPaused(sessionState) ==
  ~sessionState.isActive \/ sessionState.isCompleted

\* the sessions that take no keystroke
rejectsKeystroke(sessionState) ==
  ~sessionState.isActive \/ sessionState.isPaused \/ sessionState.isCompleted

\* a check that finds no position corrupt
stateCorruptedNever(sessionState) == FALSE

\* the check for state corruption: a negative position
stateCorrupted(sessionState) == sessionState.currentPosition < 0

\* a backspace that removes the character and leaves the position
applyKeyKeepingPosition(m, character) ==
  IF character = Backspace \/ character = BackspaceName
  THEN (IF Len(m.state.currentInput) > 0
        THEN [m EXCEPT !.state.currentInput = SubSeq(@, 1, Len(@) - 1)]
        ELSE m)
  ELSE [m EXCEPT !.state.currentInput = Append(@, character),
                 !.state.currentPosition = @ + 1]

\* the input and the position after the key
applyKey(m, character) ==
  IF character = Backspace \/ character = BackspaceName
  THEN (IF Len(m.state.currentInput) > 0
        THEN [m EXCEPT !.state.currentInput = SubSeq(@, 1, Len(@) - 1),
                       !.state.currentPosition = Max(0, @ - 1)]
        ELSE m)
  ELSE [m EXCEPT !.state.currentInput = Append(@, character),
                 !.state.currentPosition = @ + 1]

\* the messages of the errors validateConfig throws, word by word
EmptyTextMessage ==
  <<"TypingSessionManager:", "targetText", "cannot", "be", "empty">>

NegativeTargetMessage ==
  <<"TypingSessionManager:", "targest", "must", "be", "positive">>

\* whether validateConfig throws, and with which message
validateConfig(cfg) ==
  IF Len(cfg.targetText) = 0 \/ Len(trim(cfg.targetText)) = 0
  THEN [threw |-> TRUE, message |-> EmptyTextMessage]
  ELSE IF cfg.target < 0
  THEN [threw |-> TRUE, message |-> NegativeTargetMessage]
  ELSE [threw |-> FALSE, message |-> <<>>]

\* the record a call of processKeystroke leaves, and what the call returns
processKeystroke(m, cfg, clock, character) ==
  IF character = "" THEN [manager |-> m, returns |-> FALSE]
  ELSE IF stateCorrupted(m.state)
  THEN [manager |-> resetSession(m), returns |-> FALSE]
  ELSE IF rejectsKeystroke(m.state)
  THEN [manager |-> m, returns |-> FALSE]
  ELSE
    LET timeSinceLast == IF Len(m.state.keystrokes) = 0 THEN 0
                         ELSE clock - m.lastKeystrokeTime
        keystroke == Keystroke(character, clock, timeSinceLast)
        logged == [m EXCEPT !.state.keystrokes = Append(@, keystroke),
                            !.lastKeystrokeTime = clock]
        typed == applyKey(logged, character)
        checked == checkCompletionConditions(typed, cfg, clock)
    IN [manager |-> [checked EXCEPT !.keystrokeEvents =
                       Append(@, [keystroke |-> keystroke, state |-> checked.state])],
        returns |-> TRUE]

----------------------------------------------------------------------------
(* Specifications.  Each draws a session from a bounded family and applies *)
(* the functions of the analyzer to it.                                    *)

LevenshteinDistance ==
  /\ call = "none"
  /\ call' = "levenshteinDistance"
  /\ ret' = levenshteinDistance(targetText, userInput)
  /\ UNCHANGED <<sessionVars, locals, unpausedMs, serviceVars, managerVars, args>>

FindAlignedErrors ==
  /\ call = "none"
  /\ call' = "findAlignedErrors"
  /\ ret' = findAlignedErrors(targetText, userInput)
  /\ UNCHANGED <<sessionVars, locals, unpausedMs, serviceVars, managerVars, args>>

AnalyzeErrorPatterns ==
  /\ call = "none"
  /\ call' = "analyzeErrorPatterns"
  /\ ret' = analyzeErrorPatterns(targetText, userInput, keystrokes)
  /\ UNCHANGED <<sessionVars, locals, unpausedMs, serviceVars, managerVars, args>>

CalculateCharacterStats ==
  /\ call = "none"
  /\ call' = "calculateCharacterStats"
  /\ ret' = calculateCharacterStats(targetText, userInput)
  /\ UNCHANGED <<sessionVars, locals, unpausedMs, serviceVars, managerVars, args>>

CalculateConsistencyScore ==
  /\ call = "none"
  /\ call' = "calculateConsistencyScore"
  /\ ret' = calculateConsistencyScore(keystrokes)
  /\ UNCHANGED <<sessionVars, locals, unpausedMs, serviceVars, managerVars, args>>

AnalyzeKeypressAccuracy ==
  /\ call = "none"
  /\ call' = "analyzeKeypressAccuracy"
  /\ ret' = analyzeKeypressAccuracy(keystrokes, targetText)
  /\ UNCHANGED <<sessionVars, locals, unpausedMs, serviceVars, managerVars, args>>

\* what Array.prototype.splice(start) leaves of its receiver
spliceLeaves(array, start) == SubSeq(array, 1, Min(Len(array), start))

\* what Array.prototype.slice(start) leaves of its receiver: slice copies
sliceLeaves(array, start) == array

\* The session is read by destructuring; the one method called on an array
\* of the session is keystrokes.slice(1) in calculateConsistencyScore, past
\* the early return, and the sort is applied to a copy of rhythmIntervals.
AnalyzeSession ==
  /\ call = "none"
  /\ call' = "analyzeSession"
  /\ ret' = analyzeSession(targetText, userInput, keystrokes, startTime, endTime)
  /\ keystrokes' = IF Len(keystrokes) < MinKeystrokes THEN keystrokes
                   ELSE sliceLeaves(keystrokes, 1)
  /\ UNCHANGED <<targetText, userInput, startTime, endTime, locals, unpausedMs,
                 serviceVars, managerVars, args>>

CalculateWPM ==
  /\ call = "none"
  /\ call' = "calculateWPM"
  /\ ret' = Finite(calculateWPM(args.count, args.timeMs))
  /\ UNCHANGED <<sessionVars, locals, unpausedMs, serviceVars, managerVars, args>>

CalculateGrossWPM ==
  /\ call = "none"
  /\ call' = "calculateGrossWPM"
  /\ ret' = Finite(calculateGrossWPM(args.count, args.timeMs))
  /\ UNCHANGED <<sessionVars, locals, unpausedMs, serviceVars, managerVars, args>>

ComponentsCalculateWPM ==
  /\ call = "none"
  /\ call' = "componentsCalculateWPM"
  /\ ret' = componentsCalculateWPM(args.count, args.timeMs)
  /\ UNCHANGED <<sessionVars, locals, unpausedMs, serviceVars, managerVars, args>>

ComponentsCalculateGrossWPM ==
  /\ call = "none"
  /\ call' = "componentsCalculateGrossWPM"
  /\ ret' = componentsCalculateGrossWPM(args.count, args.timeMs)
  /\ UNCHANGED <<sessionVars, locals, unpausedMs, serviceVars, managerVars, args>>

\* The managed sessions: a timed one of 1 second, a quote and a session of
\* two words.
Configs ==
  {[mode |-> "time", target |-> 1, targetText |-> <<"a", "b">>],
   [mode |-> "quote", target |-> 0, targetText |-> <<"a", "b">>],
   [mode |-> "words", target |-> 2, targetText |-> <<"a", " ", "b">>]}

\* the characters handed to processKeystroke
SessionKeys == {"a", " ", Backspace, BackspaceName, ""}

\* the clock starts at 1 s and steps by half a second
StartClock == MsPerSecond

TickMs == MsPerSecond \div 2

MaxClock == StartClock + MaxTicks * TickMs

SetManager(m) ==
  /\ state' = m.state
  /\ sessionTimer' = m.sessionTimer
  /\ pausedAt' = m.pausedAt
  /\ lastKeystrokeTime' = m.lastKeystrokeTime
  /\ sessionEnds' = m.sessionEnds
  /\ keystrokeEvents' = m.keystrokeEvents

StartSession ==
  /\ call' = "startSession"
  /\ args' = Null
  /\ ret' = Null
  /\ SetManager(startSession(Manager, config, now))
  /\ UNCHANGED <<sessionVars, locals, unpausedMs, serviceVars, config, now>>

PauseSession ==
  /\ call' = "pauseSession"
  /\ args' = Null
  /\ ret' = Null
  /\ SetManager(pauseSession(Manager, now))
  /\ UNCHANGED <<sessionVars, locals, unpausedMs, serviceVars, config, now>>

ResumeSession ==
  /\ call' = "resumeSession"
  /\ args' = Null
  /\ ret' = Null
  /\ SetManager(resumeSession(Manager, config, now))
  /\ UNCHANGED <<sessionVars, locals, unpausedMs, serviceVars, config, now>>

EndSession ==
  /\ call' = "endSession"
  /\ args' = Null
  /\ ret' = Null
  /\ SetManager(endSession(Manager, config, now))
  /\ UNCHANGED <<sessionVars, locals, unpausedMs, serviceVars, config, now>>

ProcessKeystroke ==
  \E character \in SessionKeys :
    /\ Len(state.keystrokes) < MaxSessionKeys
    /\ Len(keystrokeEvents) < MaxSessionKeys
    /\ call' = "processKeystroke"
    /\ args' = [character |-> character]
    /\ ret' = processKeystroke(Manager, config, now, character).returns
    /\ SetManager(processKeystroke(Manager, config, now, character).manager)
    /\ UNCHANGED <<sessionVars, locals, unpausedMs, serviceVars, config, now>>

\* the callback of setTimeout runs: no sooner than due, and once
TimerFires ==
  /\ sessionTimer.pending
  /\ now >= sessionTimer.due
  /\ call' = "timer"
  /\ args' = Null
  /\ ret' = Null
  /\ SetManager(endSession([Manager EXCEPT !.sessionTimer.pending = FALSE], config, now))
  /\ UNCHANGED <<sessionVars, locals, unpausedMs, serviceVars, config, now>>

\* time passes
Tick ==
  /\ now < MaxClock
  /\ now' = now + TickMs
  /\ call' = "tick"
  /\ args' = Null
  /\ ret' = Null
  /\ UNCHANGED <<sessionVars, locals, unpausedMs, serviceVars, config, state, sessionTimer, pausedAt,
                 lastKeystrokeTime, sessionEnds, keystrokeEvents>>

\* a manager as its constructor leaves it
InitManager ==
  /\ NoServices
  /\ config \in Configs
  /\ state = initializeState
  /\ sessionTimer = NoTimer
  /\ pausedAt = NoTime
  /\ lastKeystrokeTime = 0
  /\ now = StartClock
  /\ sessionEnds = <<>>
  /\ keystrokeEvents = <<>>
  /\ targetText = <<>>
  /\ userInput = <<>>
  /\ keystrokes = <<>>
  /\ startTime = 0
  /\ endTime = 0
  /\ args = Null
  /\ locals = Null
  /\ unpausedMs = 0
  /\ call = "constructor"
  /\ ret = Null

NextManager ==
  \/ StartSession
  \/ PauseSession
  \/ ResumeSession
  \/ EndSession
  \/ ProcessKeystroke
  \/ TimerFires
  \/ Tick

SpecManager == InitManager /\ [][NextManager]_vars

\* The timer of a time-mode session across pauses: the clock runs further
\* and the time spent active and not paused is kept beside it.
MaxTimerTicks == 5

\* time passes, and counts for the session while it runs
Elapse ==
  /\ now < StartClock + MaxTimerTicks * TickMs
  /\ now' = now + TickMs
  /\ unpausedMs' = IF state.isActive /\ ~state.isPaused
                   THEN unpausedMs + TickMs ELSE unpausedMs
  /\ call' = "tick"
  /\ args' = Null
  /\ ret' = Null
  /\ UNCHANGED <<sessionVars, locals, serviceVars, config, state, sessionTimer, pausedAt,
                 lastKeystrokeTime, sessionEnds, keystrokeEvents>>

InitTimer == InitManager /\ config.mode = "time"

NextTimer ==
  \/ StartSession
  \/ PauseSession
  \/ ResumeSession
  \/ EndSession
  \/ TimerFires
  \/ Elapse

SpecTimer == InitTimer /\ [][NextTimer]_vars

\* The words-mode sessions of the tests: the text is typed as it stands.
WordConfigs ==
  {[mode |-> "words", target |-> 2, targetText |-> HelloWorldTest],
   [mode |-> "words", target |-> 1, targetText |-> HelloWorldTest]}

\* the next character of the text is handed to processKeystroke
TypeTargetText ==
  /\ Len(state.currentInput) < Len(config.targetText)
  /\ LET character == config.targetText[Len(state.currentInput) + 1]
     IN /\ call' = "processKeystroke"
        /\ args' = [character |-> character]
        /\ ret' = processKeystroke(Manager, config, now, character).returns
        /\ SetManager(processKeystroke(Manager, config, now, character).manager)
  /\ UNCHANGED <<sessionVars, locals, unpausedMs, serviceVars, config, now>>

InitWords ==
  /\ NoServices
  /\ config \in WordConfigs
  /\ state = initializeState
  /\ sessionTimer = NoTimer
  /\ pausedAt = NoTime
  /\ lastKeystrokeTime = 0
  /\ now = StartClock
  /\ sessionEnds = <<>>
  /\ keystrokeEvents = <<>>
  /\ targetText = <<>>
  /\ userInput = <<>>
  /\ keystrokes = <<>>
  /\ startTime = 0
  /\ endTime = 0
  /\ args = Null
  /\ locals = Null
  /\ unpausedMs = 0
  /\ call = "constructor"
  /\ ret = Null

NextWords ==
  \/ StartSession
  \/ PauseSession
  \/ ResumeSession
  \/ TypeTargetText
  \/ Tick

SpecWords == InitWords /\ [][NextWords]_vars

\* The configurations handed to the constructor.
Targets == {-1, 0, 1, 30}

Texts ==
  {<<>>, <<" ">>, <<" ", " ", " ">>, <<"a">>, <<" ", "a", " ">>,
   <<"a", " ", "b">>}

CandidateConfigs ==
  [mode : {"time", "words", "quote"}, target : Targets, targetText : Texts]

\* the identifiers crypto.randomUUID() may return
SessionIds == {"uuid-1", "uuid-2"}

\* new TypingSessionManager(args)
Constructor ==
  /\ call = "none"
  /\ call' = "constructor"
  /\ ret' = validateConfig(args)
  /\ IF validateConfig(args).threw
     THEN UNCHANGED <<config, state>>
     ELSE /\ \E id \in SessionIds :
               config' = [mode |-> args.mode, target |-> args.target,
                          targetText |-> args.targetText, sessionId |-> id]
          /\ state' = initializeState
  /\ UNCHANGED <<sessionVars, locals, unpausedMs, serviceVars, sessionTimer, pausedAt, lastKeystrokeTime, now,
                 sessionEnds, keystrokeEvents, args>>

InitConstructor ==
  /\ locals = Null
  /\ unpausedMs = 0
  /\ args \in CandidateConfigs
  /\ NoManager
  /\ NoServices
  /\ targetText = <<>>
  /\ userInput = <<>>
  /\ keystrokes = <<>>
  /\ startTime = 0
  /\ endTime = 0
  /\ call = "none"
  /\ ret = Null

NextConstructor == Constructor

SpecConstructor == InitConstructor /\ [][NextConstructor]_vars

\* The position of a started session is overwritten from outside, as the
\* recovery test does.
CorruptPosition ==
  /\ state.isActive
  /\ state.currentPosition >= 0
  /\ state' = [state EXCEPT !.currentPosition = -1]
  /\ call' = "corrupt"
  /\ args' = Null
  /\ ret' = Null
  /\ UNCHANGED <<sessionVars, locals, unpausedMs, serviceVars, config, sessionTimer, pausedAt,
                 lastKeystrokeTime, now, sessionEnds, keystrokeEvents>>

NextRecovery ==
  \/ StartSession
  \/ ProcessKeystroke
  \/ CorruptPosition
  \/ TimerFires
  \/ Tick

SpecRecovery == InitManager /\ [][NextRecovery]_vars

\* pairs of strings, for the string algorithms
InitStrings ==
  /\ \E pair \in StringPairs : targetText = pair[1] /\ userInput = pair[2]
  /\ keystrokes = <<>>
  /\ startTime = 0
  /\ endTime = 60000
  /\ NoManager
  /\ NoServices
  /\ args = Null
  /\ locals = Null
  /\ unpausedMs = 0
  /\ call = "none"
  /\ ret = Null

NextStrings ==
  \/ LevenshteinDistance
  \/ FindAlignedErrors
  \/ AnalyzeErrorPatterns
  \/ CalculateCharacterStats

SpecStrings == InitStrings /\ [][NextStrings]_vars

\* findAlignedErrors, one iteration of its loop at a time.
AlignIteration ==
  /\ call # "findAlignedErrors"
  /\ loopContinues(targetText, userInput, locals.targetIndex, locals.inputIndex)
  /\ call' = "while"
  /\ LET step == AlignStep(targetText, userInput,
                           locals.targetIndex, locals.inputIndex)
     IN locals' = [errors |-> locals.errors \o step.errors,
                   targetIndex |-> step.targetIndex,
                   inputIndex |-> step.inputIndex,
                   iterations |-> locals.iterations + 1]
  /\ UNCHANGED <<sessionVars, serviceVars, managerVars, unpausedMs, args, ret>>

AlignReturn ==
  /\ call # "findAlignedErrors"
  /\ ~loopContinues(targetText, userInput, locals.targetIndex, locals.inputIndex)
  /\ call' = "findAlignedErrors"
  /\ ret' = locals.errors
  /\ UNCHANGED <<sessionVars, serviceVars, managerVars, locals, unpausedMs, args>>

InitAlign ==
  /\ \E pair \in StringPairs : targetText = pair[1] /\ userInput = pair[2]
  /\ unpausedMs = 0
  /\ locals = [errors |-> <<>>, targetIndex |-> 0, inputIndex |-> 0,
               iterations |-> 0]
  /\ keystrokes = <<>>
  /\ startTime = 0
  /\ endTime = 60000
  /\ NoManager
  /\ NoServices
  /\ args = Null
  /\ call = "none"
  /\ ret = <<>>

NextAlign == AlignIteration \/ AlignReturn

SpecAlign == InitAlign /\ [][NextAlign]_vars /\ WF_vars(NextAlign)

\* pairs of strings, the pair of the error-pattern test among them, for
\* the error aggregator
InitPatterns ==
  /\ \E pair \in StringPairs \cup {<<HelloWorldTest, HxlloWorldTxst>>} :
       targetText = pair[1] /\ userInput = pair[2]
  /\ keystrokes = <<>>
  /\ startTime = 0
  /\ endTime = 60000
  /\ NoManager
  /\ NoServices
  /\ args = Null
  /\ locals = Null
  /\ unpausedMs = 0
  /\ call = "none"
  /\ ret = Null

NextPatterns == FindAlignedErrors \/ AnalyzeErrorPatterns

SpecPatterns == InitPatterns /\ [][NextPatterns]_vars

\* keystroke logs with arbitrary timing, for the consistency scorer
InitTiming ==
  /\ keystrokes \in TimingLogs
  /\ targetText = <<>>
  /\ userInput = <<>>
  /\ startTime = 0
  /\ endTime = 60000
  /\ NoManager
  /\ NoServices
  /\ args = Null
  /\ locals = Null
  /\ unpausedMs = 0
  /\ call = "none"
  /\ ret = Null

NextTiming == CalculateConsistencyScore

SpecTiming == InitTiming /\ [][NextTiming]_vars

\* The rhythm intervals calculateConsistencyScore hands on: above 0 and at
\* most RhythmLimit, here two far values and two close ones.
MaxIntervals == 6

RhythmGaps == {1, 200, 201, RhythmLimit}

CalculatePureRhythmConsistency ==
  /\ call = "none"
  /\ call' = "calculatePureRhythmConsistency"
  /\ ret' = calculatePureRhythmConsistency(args.rhythmIntervals)
  /\ UNCHANGED <<sessionVars, locals, unpausedMs, serviceVars, managerVars, args>>

InitFence ==
  /\ args \in {[rhythmIntervals |-> s] : s \in StrOver(RhythmGaps, MaxIntervals)}
  /\ keystrokes = <<>>
  /\ targetText = <<>>
  /\ userInput = <<>>
  /\ startTime = 0
  /\ endTime = 60000
  /\ NoManager
  /\ NoServices
  /\ locals = Null
  /\ unpausedMs = 0
  /\ call = "none"
  /\ ret = 0

NextFence == CalculatePureRhythmConsistency

SpecFence == InitFence /\ [][NextFence]_vars

\* a count and an elapsed time, for the WPM functions
InitWpm ==
  /\ locals = Null
  /\ unpausedMs = 0
  /\ args \in [count : Counts, timeMs : TimesMs]
  /\ NoManager
  /\ NoServices
  /\ targetText = <<>>
  /\ userInput = <<>>
  /\ keystrokes = <<>>
  /\ startTime = 0
  /\ endTime = 0
  /\ call = "none"
  /\ ret = Null

NextWpm ==
  \/ CalculateWPM
  \/ CalculateGrossWPM
  \/ ComponentsCalculateWPM
  \/ ComponentsCalculateGrossWPM

SpecWpm == InitWpm /\ [][NextWpm]_vars

\* completed sessions: userInput is the replay of the log
Init ==
  /\ \/ targetText \in StrOver(TargetAlphabet, MaxLen) /\ keystrokes \in KeyLogs
     \/ targetText = Hello /\ keystrokes = HeavyCorrectionLog
  /\ userInput = Replay(keystrokes, <<>>)
  /\ startTime = 0
  /\ endTime \in ElapsedMs
  /\ NoManager
  /\ NoServices
  /\ args = Null
  /\ locals = Null
  /\ unpausedMs = 0
  /\ call = "none"
  /\ ret = Null

Next == AnalyzeSession \/ AnalyzeKeypressAccuracy

Spec == Init /\ [][Next]_vars

----------------------------------------------------------------------------
(* KeystrokeCaptureService.  The service is the record of its state and   *)
(* of the listeners its target element holds: listeners[type] counts the   *)
(* addEventListener calls for the type that no removeEventListener has     *)
(* undone.                                                                 *)

EventTypes == {"keydown", "keypress", "focus", "blur"}

NoListeners == [type \in EventTypes |-> 0]

Capture == [state |-> captureState, listeners |-> listeners]

\* the state the constructor leaves
initialCaptureState ==
  [isActive |-> FALSE, hasListeners |-> FALSE, lastError |-> Null,
   errorCount |-> 0]

\* the options of the service under test
Options ==
  [preventDefault |-> FALSE, captureSpecialKeys |-> TRUE, enabledKeys |-> {},
   disabledKeys |-> {"F5", "F12"}]

\* a detach that removes the listeners and keeps the flag
detachEventListenersKeepingFlag(svc) ==
  IF ~svc.state.hasListeners THEN svc
  ELSE [svc EXCEPT !.listeners = NoListeners]

detachEventListeners(svc) ==
  IF ~svc.state.hasListeners THEN svc
  ELSE [svc EXCEPT !.listeners = NoListeners, !.state.hasListeners = FALSE]

attachEventListeners(svc) ==
  LET cleared == IF svc.state.hasListeners THEN detachEventListeners(svc)
                 ELSE svc
  IN [cleared EXCEPT !.listeners = [type \in EventTypes |-> @[type] + 1],
                     !.state.hasListeners = TRUE]

InvalidElementMessage == "Target element is no longer valid"

handleStartupError(svc, error) ==
  detachEventListeners([svc EXCEPT !.state.lastError = error,
                                   !.state.errorCount = @ + 1,
                                   !.state.isActive = FALSE])

\* document.contains(targetElement) and targetElement.isConnected
isElementValid(connected) == connected

\* the service a call of startCapture leaves, and whether the call threw
startCapture(svc, connected) ==
  IF svc.state.isActive THEN [service |-> svc, threw |-> FALSE]
  ELSE IF ~isElementValid(connected)
  THEN [service |-> handleStartupError(svc, InvalidElementMessage),
        threw |-> TRUE]
  ELSE [service |-> [attachEventListeners(svc) EXCEPT
                       !.state.isActive = TRUE, !.state.lastError = Null],
        threw |-> FALSE]

stopCapture(svc) ==
  IF ~svc.state.isActive THEN svc
  ELSE [detachEventListeners(svc) EXCEPT !.state.isActive = FALSE]

\* the handlers in the order of insertion; a Set holds a handler once
addHandlers(hs, handler) ==
  IF \E i \in 1..Len(hs) : hs[i] = handler THEN hs ELSE Append(hs, handler)

removeHandler(hs, handler) == SelectSeq(hs, LAMBDA h : h # handler)

shouldProcessKey(event) ==
  /\ ~(event.ctrlKey \/ event.altKey \/ event.metaKey)
  /\ event.key # ""
  /\ event.key \notin Options.disabledKeys
  /\ ~(Options.enabledKeys # {} /\ event.key \notin Options.enabledKeys)

Newline == "NL"

normalizeKey(event) ==
  CASE event.key = "Backspace" -> Backspace
    [] event.key = "Enter" -> Newline
    [] OTHER -> event.key

\* the keys whose name is longer than one character, and the empty key
NamedKeys == {"", "Backspace", "Enter", "F5", "F12", "Tab", "F1"}

\* key.length === 1
IsSingleCharacter(key) == key \notin NamedKeys

\* the invocations of the handlers for one key, with the isActive they saw
dispatchKeystroke(svc, hs, key) ==
  [i \in 1..Len(hs) |->
     [handler |-> hs[i], key |-> key, isActive |-> svc.state.isActive]]

handleKeyDown(svc, hs, event) ==
  IF ~svc.state.isActive THEN <<>>
  ELSE IF ~shouldProcessKey(event) THEN <<>>
  ELSE dispatchKeystroke(svc, hs, normalizeKey(event))

handleKeyPress(svc, hs, event) ==
  IF ~svc.state.isActive THEN <<>>
  ELSE IF IsSingleCharacter(event.key) /\ shouldProcessKey(event)
  THEN dispatchKeystroke(svc, hs, event.key)
  ELSE <<>>

\* what the listeners of one type do with an event, one after the other
RECURSIVE Deliver(_, _)
Deliver(count, invocations) ==
  IF count = 0 THEN <<>> ELSE invocations \o Deliver(count - 1, invocations)

\* The capture service of the tests and what is done to it.
Handlers == {"handler1", "handler2"}

KeyEvent(key, ctrlKey) ==
  [key |-> key, ctrlKey |-> ctrlKey, altKey |-> FALSE, metaKey |-> FALSE]

KeyEvents ==
  {KeyEvent("a", FALSE), KeyEvent("a", TRUE), KeyEvent("Backspace", FALSE),
   KeyEvent("F5", FALSE)}

SetCapture(svc) ==
  /\ captureState' = svc.state
  /\ listeners' = svc.listeners

AddHandlers ==
  \E handler \in Handlers :
    /\ call' = "addHandlers"
    /\ args' = [handler |-> handler]
    /\ ret' = Null
    /\ handlers' = addHandlers(handlers, handler)
    /\ UNCHANGED <<sessionVars, locals, unpausedMs, managerVars, storageVars, captureState,
                   listeners, isConnected, dispatched>>

RemoveHandler ==
  \E handler \in Handlers :
    /\ call' = "removeHandler"
    /\ args' = [handler |-> handler]
    /\ ret' = (\E i \in 1..Len(handlers) : handlers[i] = handler)
    /\ handlers' = removeHandler(handlers, handler)
    /\ UNCHANGED <<sessionVars, locals, unpausedMs, managerVars, storageVars, captureState,
                   listeners, isConnected, dispatched>>

StartCapture ==
  /\ captureState.errorCount < MaxErrors
  /\ call' = "startCapture"
  /\ args' = Null
  /\ ret' = startCapture(Capture, isConnected).threw
  /\ SetCapture(startCapture(Capture, isConnected).service)
  /\ UNCHANGED <<sessionVars, locals, unpausedMs, managerVars, storageVars, handlers, isConnected,
                 dispatched>>

StopCapture ==
  /\ call' = "stopCapture"
  /\ args' = Null
  /\ ret' = Null
  /\ SetCapture(stopCapture(Capture))
  /\ UNCHANGED <<sessionVars, locals, unpausedMs, managerVars, storageVars, handlers, isConnected,
                 dispatched>>

\* testElement.dispatchEvent(new KeyboardEvent("keydown", event))
KeyDown ==
  \E event \in KeyEvents :
    /\ Len(dispatched) + Len(handlers) <= MaxDispatched
    /\ call' = "keydown"
    /\ args' = event
    /\ ret' = Null
    /\ dispatched' = dispatched \o
         Deliver(listeners.keydown, handleKeyDown(Capture, handlers, event))
    /\ UNCHANGED <<sessionVars, locals, unpausedMs, managerVars, storageVars, captureState,
                   handlers, listeners, isConnected>>

\* testElement.dispatchEvent(new KeyboardEvent("keypress", event))
KeyPress ==
  \E event \in KeyEvents :
    /\ Len(dispatched) + Len(handlers) <= MaxDispatched
    /\ call' = "keypress"
    /\ args' = event
    /\ ret' = Null
    /\ dispatched' = dispatched \o
         Deliver(listeners.keypress, handleKeyPress(Capture, handlers, event))
    /\ UNCHANGED <<sessionVars, locals, unpausedMs, managerVars, storageVars, captureState,
                   handlers, listeners, isConnected>>

\* the element is taken out of the document, or put back
Reparent ==
  /\ isConnected' = ~isConnected
  /\ call' = "reparent"
  /\ args' = Null
  /\ ret' = Null
  /\ UNCHANGED <<sessionVars, locals, unpausedMs, managerVars, storageVars, captureState,
                 handlers, listeners, dispatched>>

\* a service as its constructor leaves it, its element in the document
InitCapture ==
  /\ captureState = initialCaptureState
  /\ handlers = <<>>
  /\ listeners = NoListeners
  /\ isConnected = TRUE
  /\ dispatched = <<>>
  /\ NoStorage
  /\ NoManager
  /\ targetText = <<>>
  /\ userInput = <<>>
  /\ keystrokes = <<>>
  /\ startTime = 0
  /\ endTime = 0
  /\ args = Null
  /\ locals = Null
  /\ unpausedMs = 0
  /\ call = "constructor"
  /\ ret = Null

NextCapture ==
  \/ AddHandlers
  \/ RemoveHandler
  \/ StartCapture
  \/ StopCapture
  \/ KeyDown
  \/ KeyPress
  \/ Reparent

SpecCapture == InitCapture /\ [][NextCapture]_vars

\* One physical press of a key: the element receives its keydown and then
\* its keypress (Options.preventDefault is off, so the keypress follows).
Press ==
  \E event \in KeyEvents :
    /\ Len(dispatched) + 2 * Len(handlers) <= MaxDispatched
    /\ call' = "press"
    /\ args' = event
    /\ ret' = Null
    /\ dispatched' = dispatched
         \o Deliver(listeners.keydown, handleKeyDown(Capture, handlers, event))
         \o Deliver(listeners.keypress, handleKeyPress(Capture, handlers, event))
    /\ UNCHANGED <<sessionVars, locals, unpausedMs, managerVars, storageVars, captureState,
                   handlers, listeners, isConnected>>

NextPress ==
  \/ AddHandlers
  \/ RemoveHandler
  \/ StartCapture
  \/ StopCapture
  \/ Press

SpecPress == InitCapture /\ [][NextPress]_vars

----------------------------------------------------------------------------
(* StorageService.  globalState holds the list of sessions and the list   *)
(* of custom paragraphs; a session is its id, the number of the save that  *)
(* made it, and 0 stands for the missing id.                               *)

SessionLimit == 100

\* the first SessionLimit sessions
limitSessionsFromStart(sessions) ==
  SubSeq(sessions, 1, Min(Len(sessions), SessionLimit))

\* sessions.slice(-100)
limitSessions(sessions) ==
  SubSeq(sessions, Max(1, Len(sessions) - SessionLimit + 1), Len(sessions))

\* whether validateSession throws
validateSession(session) == session.id = 0

\* the store a call of saveSession leaves, and whether the call threw
saveSession(store, session) ==
  IF validateSession(session) THEN [store |-> store, threw |-> TRUE]
  ELSE [store |-> [store EXCEPT !.typingSessions =
                     limitSessions(Append(@, session))],
        threw |-> FALSE]

saveCustomParagraph(store, paragraph) ==
  [store EXCEPT !.customParagraphs = Append(@, paragraph)]

\* the store a call of deleteCustomParagraph leaves, and what it returns:
\* the filtered list is computed and dropped
deleteCustomParagraph(store, id) ==
  IF id = "" THEN [store |-> store, returns |-> FALSE]
  ELSE LET paragraphs == store.customParagraphs
           filteredParagraphs == SelectSeq(paragraphs, LAMBDA p : p.id # id)
       IN IF Len(filteredParagraphs) = Len(paragraphs)
          THEN [store |-> store, returns |-> FALSE]
          ELSE [store |-> store, returns |-> TRUE]

\* The storage service of the tests and what is done to it.
Paragraphs == [id : {"p1", "p2"}, title : {"Test Paragraph"}]

ParagraphIds == {"p1", "p2", ""}

SaveSession ==
  \E session \in {[id |-> Len(saved) + 1], [id |-> 0]} :
    /\ Len(saved) < MaxSessions
    /\ call' = "saveSession"
    /\ args' = [session |-> session]
    /\ ret' = saveSession(globalState, session).threw
    /\ globalState' = saveSession(globalState, session).store
    /\ saved' = IF saveSession(globalState, session).threw THEN saved
                ELSE Append(saved, session)
    /\ UNCHANGED <<sessionVars, locals, unpausedMs, managerVars, captureVars>>

SaveCustomParagraph ==
  \E paragraph \in Paragraphs :
    /\ Len(globalState.customParagraphs) < MaxParagraphs
    /\ call' = "saveCustomParagraph"
    /\ args' = [paragraph |-> paragraph]
    /\ ret' = Null
    /\ globalState' = saveCustomParagraph(globalState, paragraph)
    /\ UNCHANGED <<sessionVars, locals, unpausedMs, managerVars, captureVars, saved>>

DeleteCustomParagraph ==
  \E id \in ParagraphIds :
    /\ call' = "deleteCustomParagraph"
    /\ args' = [id |-> id]
    /\ ret' = deleteCustomParagraph(globalState, id).returns
    /\ globalState' = deleteCustomParagraph(globalState, id).store
    /\ UNCHANGED <<sessionVars, locals, unpausedMs, managerVars, captureVars, saved>>

\* an extension context whose globalState holds nothing yet
InitStorage ==
  /\ globalState = [typingSessions |-> <<>>, customParagraphs |-> <<>>]
  /\ saved = <<>>
  /\ NoCapture
  /\ NoManager
  /\ targetText = <<>>
  /\ userInput = <<>>
  /\ keystrokes = <<>>
  /\ startTime = 0
  /\ endTime = 0
  /\ args = Null
  /\ locals = Null
  /\ unpausedMs = 0
  /\ call = "constructor"
  /\ ret = Null

NextStorage ==
  \/ SaveSession
  \/ SaveCustomParagraph
  \/ DeleteCustomParagraph

SpecStorage == InitStorage /\ [][NextStorage]_vars

\* Two calls of saveSession that overlap.  A call reads the list at
\* `await this.getAllSessions()` and writes it at
\* `await this.context.globalState.update(...)`; between the two the other
\* call may run.  locals holds, per caller, where its call stands, its
\* session and the list it has read.
Callers == {1, 2}

MaxStored == 3

\* the numbers of sessions the store holds before the two calls: a few,
\* and around the limit
StoredCounts == 0..MaxStored \cup (SessionLimit - 4)..SessionLimit

\* the session of a caller, distinct from the stored ones
CallerSession(c) == [id |-> SessionLimit + MaxStored + c]

\* validateSession, then const sessions = await this.getAllSessions()
SaveSessionRead(c) ==
  /\ locals[c].pc = "idle"
  /\ ~validateSession(CallerSession(c))
  /\ locals' = [locals EXCEPT ![c] = [pc |-> "read",
                                      session |-> CallerSession(c),
                                      sessions |-> globalState.typingSessions]]
  /\ call' = "getAllSessions"
  /\ args' = [session |-> CallerSession(c)]
  /\ ret' = FALSE
  /\ UNCHANGED <<sessionVars, unpausedMs, managerVars, captureVars, storageVars>>

\* sessions.push(session), slice(-100), await globalState.update(...)
SaveSessionWrite(c) ==
  /\ locals[c].pc = "read"
  /\ globalState' = [globalState EXCEPT !.typingSessions =
                       limitSessions(Append(locals[c].sessions, locals[c].session))]
  /\ saved' = Append(saved, locals[c].session)
  /\ locals' = [locals EXCEPT ![c].pc = "done"]
  /\ call' = "saveSession"
  /\ args' = [session |-> locals[c].session]
  /\ ret' = FALSE
  /\ UNCHANGED <<sessionVars, unpausedMs, managerVars, captureVars>>

\* a store that earlier saves have filled, and two callers about to save
InitOverlap ==
  /\ \E n \in StoredCounts :
       /\ globalState = [typingSessions |-> [i \in 1..n |-> [id |-> i]],
                         customParagraphs |-> <<>>]
       /\ saved = [i \in 1..n |-> [id |-> i]]
  /\ locals = [c \in Callers |-> [pc |-> "idle", session |-> CallerSession(c),
                                  sessions |-> <<>>]]
  /\ NoCapture
  /\ NoManager
  /\ targetText = <<>>
  /\ userInput = <<>>
  /\ keystrokes = <<>>
  /\ startTime = 0
  /\ endTime = 0
  /\ args = [session |-> [id |-> 0]]
  /\ unpausedMs = 0
  /\ call = "constructor"
  /\ ret = FALSE

NextOverlap ==
  \/ \E c \in Callers : SaveSessionRead(c)
  \/ \E c \in Callers : SaveSessionWrite(c)

SpecOverlap == InitOverlap /\ [][NextOverlap]_vars

----------------------------------------------------------------------------
(* Edit scripts, for the statement of C1: the strings one insertion,       *)
(* deletion or substitution away from s, and the least number of such      *)
(* edits that turn target into input.  An edit is reversible (an           *)
(* insertion undoes a deletion), so input is within k edits of target      *)
(* exactly when some string is within ceil(k/2) edits of target and        *)
(* within floor(k/2) edits of input.                                       *)

EditAlphabet == TargetAlphabet \cup InputAlphabet

OneEdit(s) ==
  {SubSeq(s, 1, i - 1) \o SubSeq(s, i + 1, Len(s)) : i \in 1..Len(s)}
  \cup {SubSeq(s, 1, i) \o <<ch>> \o SubSeq(s, i + 1, Len(s)) :
          i \in 0..Len(s), ch \in EditAlphabet}
  \cup UNION {{[s EXCEPT ![i] = ch] : ch \in EditAlphabet \ {s[i]}} : i \in 1..Len(s)}

RECURSIVE WithinEdits(_, _)
WithinEdits(s, k) ==
  IF k = 0 THEN {s}
  ELSE LET inner == WithinEdits(s, k - 1)
       IN inner \cup UNION {OneEdit(t) : t \in inner}

RECURSIVE MinEditsFrom(_, _, _)
MinEditsFrom(target, input, k) ==
  IF WithinEdits(target, (k + 1) \div 2) \cap WithinEdits(input, k \div 2) # {}
  THEN k
  ELSE MinEditsFrom(target, input, k + 1)

MinEdits(target, input) == MinEditsFrom(target, input, 0)

NoBackspace(strokes) == \A i \in 1..Len(strokes) : strokes[i].key # Backspace

ElapsedTimeMs == Max(MinTimeMs, endTime - startTime)

\* The alignment errors of the session in the state, and those of them that
\* belong to the pattern of a character: the errors that expect it, or, for
\* the empty character, that expect none.
AlignedErrors == findAlignedErrors(targetText, userInput)

ErrorsOf(character) ==
  {i \in 1..Len(AlignedErrors) :
     IF AlignedErrors[i].expectedChar = Null THEN character = ""
     ELSE character = AlignedErrors[i].expectedChar}

FirstOf(indices) == CHOOSE i \in indices : \A j \in indices : i <= j

LastOf(indices) == CHOOSE i \in indices : \A j \in indices : i >= j

\* the positions of the errors at the given indices, in their order
RECURSIVE PositionsOf(_)
PositionsOf(indices) ==
  IF indices = {} THEN <<>>
  ELSE Append(PositionsOf(indices \ {LastOf(indices)}),
              AlignedErrors[LastOf(indices)].position)

\* the patterns of a result whose errors are of more than one kind
MixedPatterns(patterns) ==
  {i \in 1..Len(patterns) :
     \E j, k \in ErrorsOf(patterns[i].character) :
       AlignedErrors[j].type # AlignedErrors[k].type}

\* The virtual cursor of a log, in closed form.  The drift of the first i
\* keystrokes is the number of keys typed less the number of backspaces;
\* a cursor that cannot go below 0 stands above the drift by as much as the
\* drift has ever been below 0.
Typed(strokes, i) == Cardinality({j \in 1..i : strokes[j].key # Backspace})

Drift(strokes, i) == Typed(strokes, i) - (i - Typed(strokes, i))

LowestDrift(strokes, i) ==
  CHOOSE low \in {Drift(strokes, j) : j \in 0..i} :
    \A j \in 0..i : low <= Drift(strokes, j)

CursorAfter(strokes, i) == Drift(strokes, i) - LowestDrift(strokes, i)

\* The replay of a log, in closed form: a typed key stays in the input
\* unless a later backspace removes it, which the first backspace does that
\* finds no key typed after it still standing.
Survives(strokes, i) ==
  /\ strokes[i].key # Backspace
  /\ \A j \in (i + 1)..Len(strokes) :
       Drift(strokes, j) - Drift(strokes, i) >= 0

RECURSIVE KeysAt(_, _)
KeysAt(strokes, indices) ==
  IF indices = {} THEN <<>>
  ELSE LET last == CHOOSE i \in indices : \A j \in indices : i >= j
       IN Append(KeysAt(strokes, indices \ {last}), strokes[last].key)

SurvivingKeys(strokes) ==
  KeysAt(strokes, {i \in 1..Len(strokes) : Survives(strokes, i)})

\* a log of single-character keys and the backspace token
SingleCharacterKeys(strokes) ==
  \A i \in 1..Len(strokes) : strokes[i].key # BackspaceName

\* the keystrokes that hit the target character under the cursor
CorrectlyTyped(strokes, target) ==
  {i \in 1..Len(strokes) :
     /\ strokes[i].key # Backspace
     /\ CursorAfter(strokes, i - 1) < Len(target)
     /\ strokes[i].key = target[CursorAfter(strokes, i - 1) + 1]}

----------------------------------------------------------------------------
(* Claims *)

\* C1: levenshteinDistance(target, input) is the minimum number of
\* single-character insertions, deletions and substitutions that turn
\* target into input, characters compared by exact equality.
C1_LevenshteinIsMinimumEdits ==
  (call = "levenshteinDistance" /\ Len(targetText) <= MaxLen /\ Len(userInput) <= MaxLen)
    => ret = MinEdits(targetText, userInput)

\* a and A are distinct characters: one substitution
C1_Witness ==
  /\ call = "levenshteinDistance"
  /\ targetText = <<"a", "b">>
  /\ userInput = <<"A", "b", "b">>
  /\ ret = 2

\* C3: the accuracy of the report is within [0, 100], and it is exactly 100
\* when the log has no backspace and userInput, the replay of the log,
\* equals targetText.
C3_AccuracyBounds ==
  call = "analyzeSession" =>
    /\ ret.accuracy >= 0
    /\ ret.accuracy <= 100 * 100
    /\ (NoBackspace(keystrokes) /\ userInput = Replay(keystrokes, <<>>)
          /\ userInput = targetText) => ret.accuracy = 100 * 100

C3_Witness ==
  /\ call = "analyzeSession"
  /\ NoBackspace(keystrokes)
  /\ userInput = targetText
  /\ Len(keystrokes) >= 2
  /\ ret.accuracy = 100 * 100

\* C4: the consistency score of every keystroke log is within [0, 100].
C4_ConsistencyBounds ==
  call = "calculateConsistencyScore" => (ret >= 0 /\ ret <= 100 * 100)

\* a log whose rhythm score is below its hesitation penalty: the floor at 0
\* applies
C4_Witness ==
  /\ call = "calculateConsistencyScore"
  /\ Len(keystrokes) >= MinKeystrokes
  /\ \E i \in 2..Len(keystrokes) : keystrokes[i].timeSinceLast > RhythmLimit
  /\ ret = 0

C6_ErrorPatternsRanked ==
  call = "analyzeErrorPatterns" =>
    /\ Len(ret) <= 10
    /\ \A i \in 1..(Len(ret) - 1) : ret[i].frequency >= ret[i + 1].frequency

\* more than 10 keys were recorded, 10 are returned and the sort moved an entry
C6_Witness ==
  /\ call = "analyzeErrorPatterns"
  /\ Len(BuildErrorMap(findAlignedErrors(targetText, userInput), <<>>)) > 10
  /\ Len(ret) = 10
  /\ ret[1].frequency > ret[10].frequency
  /\ ret[1].character # targetText[1]

\* C7: for every string s, the empty one included, levenshteinDistance(s, s)
\* is 0 and findAlignedErrors(s, s) is the empty list.
C7_IdenticalStrings ==
  targetText = userInput =>
    /\ call = "levenshteinDistance" => ret = 0
    /\ call = "findAlignedErrors" => ret = <<>>

C7_Witness ==
  /\ call = "findAlignedErrors"
  /\ targetText = userInput
  /\ Len(targetText) >= 2
  /\ ret = <<>>

\* C8: levenshteinDistance(target, input) <= max(|target|, |input|); it is
\* |target| when input is empty and |input| when target is empty.
C8_DistanceBound ==
  call = "levenshteinDistance" =>
    /\ ret <= Max(Len(targetText), Len(userInput))
    /\ userInput = <<>> => ret = Len(targetText)
    /\ targetText = <<>> => ret = Len(userInput)

C8_Witness ==
  /\ call = "levenshteinDistance"
  /\ userInput = <<>>
  /\ Len(targetText) >= 2
  /\ ret = Len(targetText)

\* C9: the net wpm of the report is round((C / 5) / elapsedMinutes) with
\* C = max(0, |targetText| - levenshteinDistance(targetText, userInput)).
C9_NetWpmFromTargetLength ==
  call = "analyzeSession" =>
    ret.wpm = RoundDiv(Max(0, Len(targetText) - levenshteinDistance(targetText, userInput))
                         * MsPerMinute,
                       CharsPerWord * ElapsedTimeMs)

\* C10: the grossWPM of the report is round((N / 5) / elapsedMinutes) with
\* N the number of keystrokes of the log that are not a backspace.
C10_GrossWpmCountsTypedKeys ==
  call = "analyzeSession" =>
    ret.grossWPM = RoundDiv(countAllTypedCharacters(keystrokes) * MsPerMinute,
                            CharsPerWord * ElapsedTimeMs)

\* C11: calculateWPM and calculateGrossWPM, of the analyzer and of
\* components/wpmCalculator, return 0 whenever the elapsed time is <= 0,
\* exactly 0 included, and never a NaN or an infinite value.
C11_NonPositiveTimeGivesZero ==
  call \in {"calculateWPM", "calculateGrossWPM",
            "componentsCalculateWPM", "componentsCalculateGrossWPM"} =>
    /\ ret.finite
    /\ args.timeMs <= 0 => ret.value = 0

\* C12: analyzeSession of the empty session (empty targetText, userInput
\* and log) reports wpm 0, accuracy 100 and errorCount 0; and whenever
\* endTime <= startTime the elapsed time counts as 0.01 minute, so that wpm
\* and grossWPM are the finite, non-negative rates over 0.01 minute.
C12_EmptyAndInstantSessions ==
  call = "analyzeSession" =>
    /\ (targetText = <<>> /\ userInput = <<>> /\ keystrokes = <<>>) =>
          (ret.wpm = 0 /\ ret.accuracy = 100 * 100 /\ ret.errorCount = 0)
    /\ endTime <= startTime =>
          /\ ret.wpm = RoundDiv(ret.correctChars * MsPerMinute, CharsPerWord * MinTimeMs)
          /\ ret.grossWPM = RoundDiv(ret.totalChars * MsPerMinute, CharsPerWord * MinTimeMs)
          /\ ret.wpm >= 0
          /\ ret.grossWPM >= 0

\* one correct character in a session that ends before it starts: 20 wpm
C12_Witness ==
  /\ call = "analyzeSession"
  /\ endTime < startTime
  /\ targetText = <<"a">>
  /\ userInput = <<"a">>
  /\ ret.wpm = 20
  /\ ret.grossWPM = 20

\* C13: analyzeKeypressAccuracy replays the log against a cursor that
\* starts at 0, steps back on a backspace (never below 0) and forward on
\* every other key: totalKeypresses is the number of keys that are not a
\* backspace, correctKeypresses the number of those that equal the target
\* character under the cursor.  For target hello and the log
\* h,x,BS,e,y,BS,l,l,o that is 5 correct of 7, while errorCount is 0.
C13_KeypressReplay ==
  /\ call = "analyzeKeypressAccuracy" =>
        /\ ret.totalKeypresses = Typed(keystrokes, Len(keystrokes))
        /\ ret.correctKeypresses = Cardinality(CorrectlyTyped(keystrokes, targetText))
  /\ (targetText = Hello /\ keystrokes = HeavyCorrectionLog) =>
        /\ call = "analyzeKeypressAccuracy" =>
              (ret.correctKeypresses = 5 /\ ret.totalKeypresses = 7)
        /\ call = "analyzeSession" =>
              (ret.errorCount = 0 /\ ret.accuracy < 100 * 100)

C13_Witness ==
  /\ call = "analyzeKeypressAccuracy"
  /\ targetText = Hello
  /\ keystrokes = HeavyCorrectionLog
  /\ userInput = Hello
  /\ ret.correctKeypresses = 5
  /\ ret.totalKeypresses = 7

\* C14: when the log has no backspace and userInput is its replay, the
\* keypress view and the string view agree: totalKeypresses = |userInput|
\* and correctKeypresses = characterStats.correct.  With a backspace that
\* erases a wrong key they differ: the heavy-correction session counts 7
\* keypresses for a userInput of 5 characters.
C14_ViewsAgreeWithoutBackspace ==
  call = "analyzeKeypressAccuracy" =>
    /\ (NoBackspace(keystrokes) /\ userInput = Replay(keystrokes, <<>>)) =>
          /\ ret.totalKeypresses = Len(userInput)
          /\ ret.correctKeypresses = calculateCharacterStats(targetText, userInput).correct
    /\ (targetText = Hello /\ keystrokes = HeavyCorrectionLog) =>
          ret.totalKeypresses > Len(userInput)

\* a log without backspace, one key right and one wrong
C14_Witness ==
  /\ call = "analyzeKeypressAccuracy"
  /\ NoBackspace(keystrokes)
  /\ targetText = <<"a", "b", "a">>
  /\ userInput = <<"a", "a">>
  /\ ret.totalKeypresses = 2
  /\ ret.correctKeypresses = 1

\* C15: calculateCharacterStats compares the strings position by position
\* up to m = min(|targetText|, |userInput|): correct is the number of equal
\* positions, incorrect = m - correct, extra = max(0, |userInput| -
\* |targetText|), missed = max(0, |targetText| - |userInput|); so correct +
\* incorrect + missed = |targetText|, correct + incorrect + extra =
\* |userInput|, and extra and missed are never both positive.
C15_CharacterStats ==
  call = "calculateCharacterStats" =>
    LET m == IF Len(targetText) <= Len(userInput) THEN Len(targetText) ELSE Len(userInput)
    IN /\ ret.correct = Cardinality({i \in 1..m : targetText[i] = userInput[i]})
       /\ ret.incorrect = m - ret.correct
       /\ ret.extra = (IF Len(userInput) > Len(targetText)
                       THEN Len(userInput) - Len(targetText) ELSE 0)
       /\ ret.missed = (IF Len(targetText) > Len(userInput)
                        THEN Len(targetText) - Len(userInput) ELSE 0)
       /\ ret.correct + ret.incorrect + ret.missed = Len(targetText)
       /\ ret.correct + ret.incorrect + ret.extra = Len(userInput)
       /\ ~(ret.extra > 0 /\ ret.missed > 0)

\* a target longer than the input, one position right and one wrong
C15_Witness ==
  /\ call = "calculateCharacterStats"
  /\ targetText = <<"a", "b", "b">>
  /\ userInput = <<"a", "A">>
  /\ ret = [correct |-> 1, incorrect |-> 1, extra |-> 0, missed |-> 1]

\* C16: every error of findAlignedErrors is an insertion (expectedChar
\* absent, actualChar present), a deletion (expectedChar present, actualChar
\* absent) or a substitution (both present and different); its position is
\* the target cursor at emission: within 0..|target|, the place of
\* expectedChar in the target when there is one, and non-decreasing along
\* the list.
C16_ErrorShapes ==
  call = "findAlignedErrors" =>
    \A i \in 1..Len(ret) :
      LET error == ret[i]
      IN /\ error.type \in {"insertion", "deletion", "substitution"}
         /\ error.type = "insertion" =>
               (error.expectedChar = Null /\ error.actualChar # Null)
         /\ error.type = "deletion" =>
               (error.expectedChar # Null /\ error.actualChar = Null)
         /\ error.type = "substitution" =>
               /\ error.expectedChar # Null
               /\ error.actualChar # Null
               /\ error.expectedChar # error.actualChar
         /\ error.position >= 0
         /\ error.position <= Len(targetText)
         /\ error.expectedChar # Null =>
               /\ error.position < Len(targetText)
               /\ error.expectedChar = targetText[error.position + 1]
         /\ i > 1 => ret[i - 1].position <= error.position

\* an alignment with a deletion, a substitution and an insertion past the
\* end of the target
C16_Witness ==
  /\ call = "findAlignedErrors"
  /\ {ret[i].type : i \in 1..Len(ret)} = {"insertion", "deletion", "substitution"}
  /\ ret[Len(ret)].type = "insertion"
  /\ ret[Len(ret)].position = Len(targetText)

\* C17 as claimed: an ErrorPattern reports the kind of the last error
\* recorded for its key.
C17_PatternReportsLastKind ==
  call = "analyzeErrorPatterns" =>
    \A i \in 1..Len(ret) :
      ret[i].errorType = AlignedErrors[LastOf(ErrorsOf(ret[i].character))].type

\* C17 as amended: an ErrorPattern reports the kind of the first error
\* recorded for its key, whatever the kinds of the later ones.
C17_PatternReportsFirstKind ==
  call = "analyzeErrorPatterns" =>
    \A i \in 1..Len(ret) :
      ret[i].errorType = AlignedErrors[FirstOf(ErrorsOf(ret[i].character))].type

\* a pattern whose first and last errors are of different kinds
C17_Witness ==
  /\ call = "analyzeErrorPatterns"
  /\ \E i \in MixedPatterns(ret) :
       LET errors == ErrorsOf(ret[i].character)
       IN /\ AlignedErrors[FirstOf(errors)].type # AlignedErrors[LastOf(errors)].type
          /\ ret[i].errorType = AlignedErrors[FirstOf(errors)].type

\* C18: analyzeErrorPatterns groups the alignment errors by expectedChar,
\* the insertions under the empty character: the patterns have distinct
\* characters, and for each of them frequency is the number of errors with
\* that key, positions lists their positions in emission order, and
\* commonMistakes holds, once each, their actualChar values, _DELETED_
\* standing for an absent one.  'hello world test' against 'hxllo world
\* txst' gives a pattern for e with frequency 2 and the mistake x.
C18_PatternsGroupErrors ==
  call = "analyzeErrorPatterns" =>
    /\ \A i, j \in 1..Len(ret) : ret[i].character = ret[j].character => i = j
    /\ \A i \in 1..Len(ret) :
         LET pattern == ret[i]
             errors == ErrorsOf(pattern.character)
         IN /\ pattern.frequency = Cardinality(errors)
            /\ pattern.positions = PositionsOf(errors)
            /\ Len(pattern.positions) = pattern.frequency
            /\ Range(pattern.commonMistakes) =
                 {IF AlignedErrors[k].actualChar = Null THEN "_DELETED_"
                  ELSE AlignedErrors[k].actualChar : k \in errors}
            /\ Cardinality(Range(pattern.commonMistakes)) = Len(pattern.commonMistakes)
    /\ (targetText = HelloWorldTest /\ userInput = HxlloWorldTxst) =>
         \E i \in 1..Len(ret) :
           /\ ret[i].character = "e"
           /\ ret[i].frequency = 2
           /\ "x" \in Range(ret[i].commonMistakes)

\* a pattern of three errors with two distinct mistakes, one of them a
\* deletion
C18_Witness ==
  /\ call = "analyzeErrorPatterns"
  /\ \E i \in 1..Len(ret) :
       /\ ret[i].frequency = 3
       /\ Len(ret[i].commonMistakes) = 2
       /\ "_DELETED_" \in Range(ret[i].commonMistakes)

\* C19: a call of processKeystroke on a session that is not started, is
\* paused or is completed, and any call with the empty string, returns
\* false, leaves currentInput, currentPosition and the keystrokes as they
\* were and hands nothing to the keystroke callback.
C19_RejectedKeystroke ==
  [][(/\ call' = "processKeystroke"
      /\ \/ ~state.isActive
         \/ state.isPaused
         \/ state.isCompleted
         \/ args'.character = "")
       => /\ ret' = FALSE
          /\ state'.currentInput = state.currentInput
          /\ state'.currentPosition = state.currentPosition
          /\ state'.keystrokes = state.keystrokes
          /\ keystrokeEvents' = keystrokeEvents]_vars

\* a key refused by a paused session that has taken one key before
C19_Witness ==
  /\ call = "processKeystroke"
  /\ args.character = "a"
  /\ ret = FALSE
  /\ state.isActive
  /\ state.isPaused
  /\ ~state.isCompleted
  /\ state.currentInput = <<"a">>
  /\ Len(state.keystrokes) = 1
  /\ Len(keystrokeEvents) = 1

\* C20: a session completes at most once.  The step that completes it
\* starts from an active session, sets isCompleted, clears isActive, sets
\* endTime and hands onSessionComplete one session, whose userInput is the
\* current input (the keystroke that triggered the completion included) and
\* whose keystrokes are the log; a direct endSession or a timer firing on an
\* active session that is not completed is such a step; on a completed
\* session they change nothing of the session and hand over nothing.
C20_CompletesOnce ==
  /\ [](Len(sessionEnds) <= 1)
  /\ [][
       /\ (~state.isCompleted /\ state'.isCompleted) =>
            /\ state.isActive
            /\ ~state'.isActive
            /\ state'.endTime = now
            /\ Len(sessionEnds') = Len(sessionEnds) + 1
            /\ sessionEnds'[Len(sessionEnds')].userInput = state'.currentInput
            /\ sessionEnds'[Len(sessionEnds')].keystrokes = state'.keystrokes
            /\ call' = "processKeystroke" =>
                 /\ Len(state'.keystrokes) = Len(state.keystrokes) + 1
                 /\ state'.keystrokes[Len(state'.keystrokes)].key = args'.character
                 /\ args'.character \notin {Backspace, BackspaceName} =>
                      state'.currentInput = Append(state.currentInput, args'.character)
       /\ (call' \in {"endSession", "timer"} /\ state.isActive /\ ~state.isCompleted) =>
            state'.isCompleted
       /\ (call' \in {"endSession", "timer"} /\ state.isCompleted) =>
            (state' = state /\ sessionEnds' = sessionEnds)
       /\ sessionEnds' # sessionEnds => (~state.isCompleted /\ state'.isCompleted)
     ]_vars

\* a session completed by its second key, restarted, and then told to end
C20_Witness ==
  /\ call = "endSession"
  /\ state.isCompleted
  /\ state.isActive
  /\ Len(sessionEnds) = 1
  /\ sessionEnds[1].userInput = state.currentInput
  /\ sessionEnds[1].keystrokes = state.keystrokes
  /\ Len(state.currentInput) = 2
  /\ Len(keystrokeEvents) = 2
  /\ keystrokeEvents[2].state.isCompleted

\* C21: in every state of a manager driven by single-character keys and
\* the backspace token, currentInput is the replay of the recorded
\* keystrokes (a key is appended, a backspace removes the last character
\* and is recorded even when there is none) and currentPosition =
\* |currentInput| >= 0; the userInput of every session handed to
\* onSessionComplete is the replay of the keystrokes handed with it.
C21_InputIsReplayOfLog ==
  SingleCharacterKeys(state.keystrokes) =>
    /\ state.currentInput = SurvivingKeys(state.keystrokes)
    /\ state.currentPosition = Len(state.currentInput)
    /\ state.currentPosition >= 0
    /\ \A i \in 1..Len(sessionEnds) :
         sessionEnds[i].userInput = SurvivingKeys(sessionEnds[i].keystrokes)

\* a backspace on the empty input, recorded, and then a key
C21_Witness ==
  /\ call = "processKeystroke"
  /\ ret = TRUE
  /\ Len(state.keystrokes) = 2
  /\ state.keystrokes[1].key = Backspace
  /\ state.keystrokes[2].key = "a"
  /\ state.currentInput = <<"a">>
  /\ state.currentPosition = 1

\* The prefixes of a single-spaced text that hold exactly n complete words:
\* the prefix ends with the n-th word, or with the space that follows it.
CompleteWords(text, n) ==
  {SubSeq(text, 1, k) : k \in
     {k \in 1..Len(text) :
        LET spaces == Cardinality({i \in 1..k : text[i] = " "})
        IN \/ /\ text[k] # " "
              /\ k = Len(text) \/ text[k + 1] = " "
              /\ spaces = n - 1
           \/ /\ text[k] = " "
              /\ spaces = n}}

\* C22: a words-mode session with target N does not complete before N
\* words have been typed, and when a keystroke completes it the input
\* holds the N complete words: with target 2 and 'hello world test' the
\* session runs after 'hello ' and completes with 'hello world'; with
\* target 1 it completes with 'hello' or 'hello '.
C22_CompletesWithWholeWords ==
  /\ state.isCompleted =>
       state.currentInput \in CompleteWords(config.targetText, config.target)
  /\ \A i \in 1..Len(sessionEnds) :
       sessionEnds[i].userInput \in
         CompleteWords(config.targetText, config.target)

\* a text without a character that is not a space
Blank(text) == \A i \in 1..Len(text) : text[i] = " "

\* the phrase stands in the message
Mentions(message, phrase) ==
  \E i \in 1..Len(message) :
    /\ i + Len(phrase) - 1 <= Len(message)
    /\ SubSeq(message, i, i + Len(phrase) - 1) = phrase

\* C23: the constructor throws 'targetText cannot be empty' for an empty
\* or whitespace-only text, and 'target must be positive' for a negative
\* target and for target 0 in words mode, and no session exists then; a
\* valid configuration (time, 30, a text) gives a manager with a
\* non-empty sessionId.
C23_ConstructorValidates ==
  call = "constructor" =>
    /\ Blank(args.targetText) =>
         /\ ret.threw
         /\ Mentions(ret.message, <<"targetText", "cannot", "be", "empty">>)
    /\ (/\ ~Blank(args.targetText)
        /\ args.target < 0 \/ (args.target = 0 /\ args.mode = "words")) =>
         /\ ret.threw
         /\ Mentions(ret.message, <<"target", "must", "be", "positive">>)
    /\ ret.threw => state = Null
    /\ (args.mode = "time" /\ args.target = 30 /\ ~Blank(args.targetText)) =>
         /\ ~ret.threw
         /\ config.sessionId # ""

C25_CaptureLifecycle ==
  /\ [](/\ captureState.isActive = captureState.hasListeners
        /\ \A type \in EventTypes :
             listeners[type] = IF captureState.hasListeners THEN 1 ELSE 0
        /\ (call = "startCapture" /\ ret = FALSE) =>
             captureState.isActive /\ captureState.hasListeners
        /\ call = "stopCapture" =>
             ~captureState.isActive /\ ~captureState.hasListeners
        /\ \A i \in 1..Len(dispatched) : dispatched[i].isActive)
  /\ [][(\/ call' = "startCapture" /\ captureState.isActive
         \/ call' = "stopCapture" /\ ~captureState.isActive) =>
          UNCHANGED captureVars]_vars

\* a started service dispatched a key to a handler and was stopped
C25_Witness ==
  /\ call = "stopCapture"
  /\ ~captureState.isActive
  /\ ~captureState.hasListeners
  /\ Len(dispatched) > 0
  /\ captureState.errorCount > 0

\* C26: after any sequence of saveSession calls that returned, the stored
\* list holds at most 100 sessions, they are the most recent ones in the
\* order of the saves, and the session just saved is the last: the oldest
\* are dropped when the limit is exceeded.
C26_KeepsLastHundred ==
  LET sessions == globalState.typingSessions
      count == Len(saved)
  IN /\ Len(sessions) <= 100
     /\ Len(sessions) = Min(count, 100)
     /\ \A i \in 1..Len(sessions) :
          sessions[i] = saved[count - Len(sessions) + i]
     /\ (call = "saveSession" /\ ret = FALSE) =>
          sessions[Len(sessions)] = args.session

\* the save that first exceeds the limit dropped the oldest session
C26_Witness ==
  /\ call = "saveSession"
  /\ ret = FALSE
  /\ Len(saved) = 101
  /\ Len(globalState.typingSessions) = 100
  /\ globalState.typingSessions[1] = saved[2]

\* C27: deleteCustomParagraph(id) returns true exactly when a paragraph
\* with that id was stored; after a call that returns true no stored
\* paragraph has the id, and a call that returns false leaves the stored
\* paragraphs as they were.
C27_DeleteRemovesParagraph ==
  [][call' = "deleteCustomParagraph" =>
       LET stored(store) ==
             \E i \in 1..Len(store.customParagraphs) :
               store.customParagraphs[i].id = args'.id
       IN /\ ret' = stored(globalState)
          /\ ret' => ~stored(globalState')
          /\ ~ret' =>
               globalState'.customParagraphs = globalState.customParagraphs
    ]_vars

\* how far ahead of the 0-based cursor the character next stands in s, 0
\* when it does not
Lookahead(s, ch, cursor) ==
  LET ahead == {d \in 1..(Len(s) - cursor - 1) : s[cursor + 1 + d] = ch}
  IN IF ahead = {} THEN 0 ELSE CHOOSE d \in ahead : \A e \in ahead : d <= e

\* a mismatch under the cursors with both characters equally far ahead
TiedLookaheads ==
  /\ locals.targetIndex < Len(targetText)
  /\ locals.inputIndex < Len(userInput)
  /\ targetText[locals.targetIndex + 1] # userInput[locals.inputIndex + 1]
  /\ Lookahead(userInput, targetText[locals.targetIndex + 1],
               locals.inputIndex) > 0
  /\ Lookahead(userInput, targetText[locals.targetIndex + 1],
               locals.inputIndex)
       = Lookahead(targetText, userInput[locals.inputIndex + 1],
                   locals.targetIndex)

\* C28 as stated: at a mismatch with both lookaheads equally close the
\* iteration emits an insertion and only the input cursor advances.
C28_TieIsInsertion ==
  [][(call' = "while" /\ TiedLookaheads) =>
       /\ locals'.inputIndex = locals.inputIndex + 1
       /\ locals'.targetIndex = locals.targetIndex
       /\ Len(locals'.errors) = Len(locals.errors) + 1
       /\ locals'.errors[Len(locals'.errors)].type = "insertion"]_vars

\* C28, amended: at a mismatch with both lookaheads equally close the
\* iteration emits a deletion of the target's character and only the
\* target cursor advances.
C28_TieIsDeletion ==
  [][(call' = "while" /\ TiedLookaheads) =>
       /\ locals'.targetIndex = locals.targetIndex + 1
       /\ locals'.inputIndex = locals.inputIndex
       /\ Len(locals'.errors) = Len(locals.errors) + 1
       /\ locals'.errors[Len(locals'.errors)] =
            [expectedChar |-> targetText[locals.targetIndex + 1],
             actualChar |-> Null, position |-> locals.targetIndex,
             type |-> "deletion"]]_vars

\* 'ab' against 'ba': the tie at the start has been passed
C28_Witness ==
  /\ targetText = <<"a", "b">>
  /\ userInput = <<"b", "a">>
  /\ call = "while"
  /\ locals.iterations = 1
  /\ locals.targetIndex = 1
  /\ locals.inputIndex = 0

\* C29: findAlignedErrors terminates: in an iteration no cursor moves
\* backward and at least one advances by one, the iterations number at
\* most |target| + |input|, and the walk ends with both cursors at the
\* ends of their strings.
C29_AlignmentTerminates ==
  /\ [][call' = "while" =>
          /\ locals'.targetIndex \in {locals.targetIndex, locals.targetIndex + 1}
          /\ locals'.inputIndex \in {locals.inputIndex, locals.inputIndex + 1}
          /\ \/ locals'.targetIndex = locals.targetIndex + 1
             \/ locals'.inputIndex = locals.inputIndex + 1]_vars
  /\ [](locals.iterations <= Len(targetText) + Len(userInput))
  /\ [](call = "findAlignedErrors" =>
          /\ locals.targetIndex = Len(targetText)
          /\ locals.inputIndex = Len(userInput))
  /\ <>(call = "findAlignedErrors")

\* a walk over two strings that has ended after more iterations than
\* either string has characters
C29_Witness ==
  /\ call = "findAlignedErrors"
  /\ Len(targetText) > 0
  /\ Len(userInput) > 0
  /\ locals.iterations > Len(targetText)
  /\ locals.iterations > Len(userInput)
  /\ locals.targetIndex = Len(targetText)
  /\ locals.inputIndex = Len(userInput)

\* the intervals after the first keystroke that satisfy the test
IntervalCount(Test(_)) ==
  Cardinality({i \in 2..Len(keystrokes) : Test(keystrokes[i].timeSinceLast)})

\* C30: in calculateConsistencyScore every positive interval is in exactly
\* one of the buckets rhythm (<= 400 ms), hesitation (> 400 and <= 2000)
\* and longPause (> 2000) and a non-positive one in none, so that the
\* three counts add up to totalIntervalCount; and the hesitation and the
\* pause penalty both divide by totalIntervalCount.
C30_BucketsPartition ==
  LET buckets == bucketIntervals(keystrokes)
      IsPositive(t) == t > 0
      IsRhythm(t) == t > 0 /\ t <= 400
      IsHesitation(t) == t > 400 /\ t <= 2000
      IsLongPause(t) == t > 2000
      totalIntervalCount == IntervalCount(IsPositive)
  IN /\ Len(buckets.intervals) = totalIntervalCount
     /\ Len(buckets.rhythmIntervals) = IntervalCount(IsRhythm)
     /\ Len(buckets.hesitationIntervals) = IntervalCount(IsHesitation)
     /\ Len(buckets.longPauseIntervals) = IntervalCount(IsLongPause)
     /\ \A i \in 1..Len(buckets.rhythmIntervals) :
          IsRhythm(buckets.rhythmIntervals[i])
     /\ \A i \in 1..Len(buckets.hesitationIntervals) :
          IsHesitation(buckets.hesitationIntervals[i])
     /\ \A i \in 1..Len(buckets.longPauseIntervals) :
          IsLongPause(buckets.longPauseIntervals[i])
     /\ Len(buckets.rhythmIntervals) + Len(buckets.hesitationIntervals)
          + Len(buckets.longPauseIntervals) = totalIntervalCount
     /\ (/\ call = "calculateConsistencyScore"
         /\ Len(keystrokes) >= 5
         /\ totalIntervalCount > 0) =>
          ret = RoundDiv(
                  overallConsistency(
                    calculatePureRhythmConsistency(buckets.rhythmIntervals),
                    calculateHesitationPenalty(IntervalCount(IsHesitation),
                                               totalIntervalCount),
                    calculatePausePenalty(IntervalCount(IsLongPause),
                                          totalIntervalCount)),
                  FixedOne \div 100)

\* a scored log with an interval in every bucket, the bounds 400 and 2000
\* among them, and a non-positive one
C30_Witness ==
  /\ call = "calculateConsistencyScore"
  /\ Len(keystrokes) >= 5
  /\ \E i \in 2..Len(keystrokes) : keystrokes[i].timeSinceLast = 400
  /\ \E i \in 2..Len(keystrokes) : keystrokes[i].timeSinceLast = 2000
  /\ \E i \in 2..Len(keystrokes) : keystrokes[i].timeSinceLast > 2000
  /\ \E i \in 2..Len(keystrokes) : keystrokes[i].timeSinceLast <= 0

\* The errors read as an edit script: the walk over target from the
\* 0-based cursor, applying the errors from the k-th on where they stand.
RECURSIVE ApplyErrorsFrom(_, _, _, _)
ApplyErrorsFrom(target, errors, cursor, k) ==
  IF k <= Len(errors) /\ errors[k].position = cursor
  THEN CASE errors[k].type = "insertion" ->
              <<errors[k].actualChar>> \o
                ApplyErrorsFrom(target, errors, cursor, k + 1)
         [] errors[k].type = "deletion" ->
              ApplyErrorsFrom(target, errors, cursor + 1, k + 1)
         [] OTHER ->
              <<errors[k].actualChar>> \o
                ApplyErrorsFrom(target, errors, cursor + 1, k + 1)
  ELSE IF cursor < Len(target)
  THEN <<target[cursor + 1]>> \o ApplyErrorsFrom(target, errors, cursor + 1, k)
  ELSE <<>>

\* C31: the list findAlignedErrors returns is an edit script from target
\* to input: keeping the matched characters, inserting actualChar,
\* dropping expectedChar and replacing expectedChar by actualChar in
\* order gives input; so it has at least levenshteinDistance errors.
C31_ErrorsAreEditScript ==
  call = "findAlignedErrors" =>
    /\ ApplyErrorsFrom(targetText, ret, 0, 1) = userInput
    /\ \A k \in 1..Len(ret) :
         ret[k].type # "insertion" =>
           /\ ret[k].position < Len(targetText)
           /\ ret[k].expectedChar = targetText[ret[k].position + 1]
    /\ Len(ret) >= levenshteinDistance(targetText, userInput)

\* a script with an insertion and a deletion that is longer than the
\* distance
C31_Witness ==
  /\ call = "findAlignedErrors"
  /\ \E k \in 1..Len(ret) : ret[k].type = "insertion"
  /\ \E k \in 1..Len(ret) : ret[k].type = "deletion"
  /\ Len(ret) > levenshteinDistance(targetText, userInput)

C33_ErrorsHavePatterns ==
  call = "analyzeSession" =>
    (ret.errorCount > 0 => ret.errorPatterns # <<>>)

\* C33 amended: whenever the report's errorCount is positive and neither
\* targetText nor userInput is empty, its errorPatterns list is non-empty;
\* when exactly one of the two is empty the errorCount is positive and the
\* list is empty.
C33_ErrorsHavePatternsUnlessEmpty ==
  call = "analyzeSession" =>
    /\ (ret.errorCount > 0 /\ targetText # <<>> /\ userInput # <<>>) =>
         ret.errorPatterns # <<>>
    /\ ((targetText = <<>>) # (userInput = <<>>)) =>
         (ret.errorCount > 0 /\ ret.errorPatterns = <<>>)

\* a report with errors between two non-empty texts and its patterns
C33_Witness ==
  /\ call = "analyzeSession"
  /\ targetText # <<>>
  /\ userInput # <<>>
  /\ ret.errorCount > 0
  /\ Len(ret.errorPatterns) = 1

\* C34: in every reachable state of the session manager, under any
\* interleaving of startSession, pauseSession, resumeSession, endSession,
\* processKeystroke and the expiry of the timer, a paused session is active
\* and not completed.
C34_PausedIsActive ==
  state.isPaused => (state.isActive /\ ~state.isCompleted)

\* C35: completion is final: once the session is completed no call makes it
\* active again, restarts the timer or changes startTime, and a session is
\* never active and completed at once.
C35_CompletionIsFinal ==
  [][/\ state.isCompleted =>
          /\ state'.isCompleted
          /\ ~state'.isActive
          /\ state'.startTime = state.startTime
          /\ ~sessionTimer'.pending
     /\ ~(state'.isActive /\ state'.isCompleted)]_vars

\* C36: in time mode the timer never ends a paused session, and across
\* pause and resume cycles the timer ends the session after exactly
\* `target` seconds of unpaused time: while the session runs its timer is
\* due when the unpaused time reaches the target, and the session is not
\* ended by the timer or by a resume before that.
C36_TimerCountsUnpausedTime ==
  [][/\ (call' = "timer" /\ state.isPaused) =>
          state'.isCompleted = state.isCompleted
     /\ (state'.isActive /\ ~state'.isPaused /\ ~state'.isCompleted) =>
          /\ sessionTimer'.pending
          /\ sessionTimer'.due - now' = config.target * MsPerSecond - unpausedMs'
     /\ (call' \in {"timer", "resumeSession"}
           /\ ~state.isCompleted /\ state'.isCompleted) =>
          unpausedMs' >= config.target * MsPerSecond]_vars

\* the first half of C36 alone: the callback of the timer does not end a
\* paused session
C36_PausedNotEndedByTimer ==
  [][(call' = "timer" /\ state.isPaused) =>
          state'.isCompleted = state.isCompleted]_vars

\* C37: while capture is active, one physical press of a printable
\* single-character key, its keydown followed by its keypress, results in
\* exactly one invocation of each registered handler.
C37_OnePressOneInvocation ==
  [][(/\ call' = "press"
      /\ captureState.isActive
      /\ IsSingleCharacter(args'.key)
      /\ ~args'.ctrlKey) =>
       \A i \in 1..Len(handlers) :
         Cardinality({k \in (Len(dispatched) + 1)..Len(dispatched') :
                        dispatched'[k].handler = handlers[i]}) = 1]_vars

\* C38: saveSession loses no update under interleaving: when two calls
\* with distinct valid sessions overlap, both reading the list before
\* either writes it, and fewer than 99 sessions are stored, the stored list
\* contains both sessions once both calls have completed.
C38_NoLostUpdate ==
  (/\ \A c \in Callers : locals[c].pc = "done"
   /\ \A c \in Callers : Len(locals[c].sessions) < SessionLimit - 1
   /\ \A c, d \in Callers : locals[d].session \notin Range(locals[c].sessions)) =>
    \A c \in Callers : locals[c].session \in Range(globalState.typingSessions)

QuartileAt(intervals, k) ==
  SortAscending(intervals)[((k * Len(intervals)) \div 4) + 1]

\* the intervals inside [q1 - 1.5 iqr, q3 + 1.5 iqr], counted one by one
InsideFence(intervals) ==
  LET q1 == QuartileAt(intervals, 1)
      q3 == QuartileAt(intervals, 3)
  IN {i \in 1..Len(intervals) :
        /\ 2 * intervals[i] >= 2 * q1 - 3 * (q3 - q1)
        /\ 2 * intervals[i] <= 2 * q3 + 3 * (q3 - q1)}

FenceApplies(intervals) ==
  /\ Len(intervals) >= 5
  /\ QuartileAt(intervals, 3) > QuartileAt(intervals, 1)

\* C40: in calculatePureRhythmConsistency, whenever the Tukey fence is
\* applied (at least 5 rhythm intervals and an interquartile range above 0)
\* the filtered list keeps more than half of the n intervals, so the
\* fallback to the unfiltered list is not taken: the score is that of the
\* filtered list.
C40_FenceKeepsMoreThanHalf ==
  (call = "calculatePureRhythmConsistency" /\ FenceApplies(args.rhythmIntervals)) =>
    LET rhythmIntervals == args.rhythmIntervals
        fenced == TukeyFilter(rhythmIntervals)
    IN /\ Len(fenced) = Cardinality(InsideFence(rhythmIntervals))
       /\ 2 * Len(fenced) > Len(rhythmIntervals)
       /\ ret = Max(0, (100 * FixedOne * 1000)
                         \div ExpMilli(2 * CoefficientOfVariationMilli(fenced)))

\* five intervals of which the fence drops the two far ones
C40_Witness ==
  /\ call = "calculatePureRhythmConsistency"
  /\ FenceApplies(args.rhythmIntervals)
  /\ Len(args.rhythmIntervals) = 5
  /\ Len(TukeyFilter(args.rhythmIntervals)) = 3

====
